---- MODULE Spec2Model ----
(***************************************************************************)
(* Model of noir::consensus::consensus_state (consensus_state.cpp): the    *)
(* round state machine, its timeout ticker and its internal message queue. *)
(* Every handler is a set-valued operator: it maps the state of the object *)
(* before the call to the set of states the call can leave behind.  The    *)
(* set has more than one element only where the code dereferences an empty *)
(* std::optional (undefined behaviour).                                    *)
(* The later sections model the two mutexes of consensus_state and the tx   *)
(* pool (unapplied_tx_queue, LRU_cache, tx_pool) that node.h tests.         *)
(***************************************************************************)
EXTENDS Integers, Sequences, FiniteSets, TLC

(* ------------------------------ bounds -------------------------------- *)
\* number of validators in state.validators (all of voting power 1)
NumValidators == 2
\* rounds 0..MaxRound are carried by messages and timeouts
MaxRound == 1
\* votes stored in the height vote set before the environment stops voting
MaxVotes == 4
\* parts of a block
NumParts == 1

(* --------------------------- basic values ----------------------------- *)
\* the empty std::optional
None == [none |-> TRUE]
\* bytes{} : the empty hash
NilHash == ""
\* block hashes carried by peer messages
PeerBlocks == {"A"}

Validators == 0 .. (NumValidators - 1)
Rounds == 0 .. MaxRound

\* round_step_type
NewHeight == 1
NewRound == 2
Propose == 3
Prevote == 4
PrevoteWait == 5
Precommit == 6
PrecommitWait == 7
Commit == 8

PrevoteType == "Prevote"
PrecommitType == "Precommit"
VoteTypes == {PrevoteType, PrecommitType}

\* part_set_header of the part set a block is split into
header(b) == [total |-> NumParts, hash |-> b]
ZeroHeader == [total |-> 0, hash |-> NilHash]
\* p2p::block_id{hash, header}
block_id(h, hd) == [hash |-> h, parts |-> hd]
NilBlockId == block_id(NilHash, ZeroHeader)
BlockIdOf(b) == block_id(b, header(b))
is_zero(bid) == bid = NilBlockId

\* a block, reduced to what the consensus core reads of it: its hash
block(h) == [hash |-> h]
get_hash(b) == b.hash

\* part_set
new_part_set_from_header(hd) == [header |-> hd, have |-> {}, byte_size |-> 0]
has_header(ps, hd) == ps.header = hd
is_complete(ps) == Cardinality(ps.have) = ps.header.total
FullPartSet(b) == [header |-> header(b), have |-> 0 .. (NumParts - 1), byte_size |-> NumParts]

(* ------------------------------ vote_set ------------------------------ *)
TotalPower == NumValidators
EmptyVoteSet == [i \in Validators |-> None]
VotedFor(vs, bid) == Cardinality({i \in Validators : vs[i] = bid})
NumVoted(vs) == Cardinality({i \in Validators : vs[i] # None})
MajorityIds(vs) == {bid \in {vs[i] : i \in Validators} \ {None} : VotedFor(vs, bid) * 3 > TotalPower * 2}
two_thirds_majority(vs) == IF MajorityIds(vs) = {} THEN None ELSE CHOOSE bid \in MajorityIds(vs) : TRUE
has_two_thirds_majority(vs) == MajorityIds(vs) # {}
has_two_thirds_any(vs) == NumVoted(vs) * 3 > TotalPower * 2
has_all(vs) == NumVoted(vs) = NumValidators

(* --------------------------- height_vote_set -------------------------- *)
new_height_vote_set == [round |-> 0, sets |-> [r \in Rounds |-> [t \in VoteTypes |-> EmptyVoteSet]]]
prevotes(c, r) == c.rs.votes.sets[r][PrevoteType]
precommits(c, r) == c.rs.votes.sets[r][PrecommitType]
set_round(votes, r) == [votes EXCEPT !.round = r]
hvs_accepts(c, v) ==
  /\ v.height = c.rs.height
  /\ v.round \in Rounds
  /\ v.validator_index \in Validators
  /\ c.rs.votes.sets[v.round][v.type][v.validator_index] = None
hvs_add_vote(votes, v) == [votes EXCEPT !.sets[v.round][v.type][v.validator_index] = v.block_id]
PolRounds(c) == {r \in Rounds : /\ has_two_thirds_majority(prevotes(c, r))
                                /\ two_thirds_majority(prevotes(c, r)).hash # NilHash}
pol_info(c) == IF PolRounds(c) = {} THEN -1 ELSE CHOOSE r \in PolRounds(c) : \A q \in PolRounds(c) : q <= r
NumStored(c) == Cardinality({x \in Rounds \X VoteTypes \X Validators :
                               c.rs.votes.sets[x[1]][x[2]][x[3]] # None})

(* ------------------------- plumbing of the model ---------------------- *)
Bind(S, F(_)) == UNION {F(s) : s \in S}
Throw(c) == [c EXCEPT !.fatal = "error"]
Crash(c) == [c EXCEPT !.fatal = "crash"]
Log(c, e) == [c EXCEPT !.log = Append(@, e)]
\* make_scoped_exit: D runs in a destructor when the scope is left, also while an exception
\* unwinds.  An exception that leaves D is either swallowed by the scope guard or, from a
\* plain destructor, ends the process; the exception of the scope itself goes on unwinding.
Defer(S, D(_)) ==
  UNION {IF s.fatal = "crash" THEN {s}
         ELSE UNION {IF d.fatal = "crash" THEN {d}
                     ELSE IF d.fatal = "error" THEN {[d EXCEPT !.fatal = s.fatal], Crash(d)}
                     ELSE {[d EXCEPT !.fatal = s.fatal]} : d \in D([s EXCEPT !.fatal = "ok"])}
           : s \in S}
\* operator-> on an empty std::optional is undefined: the test can come out either way, or the process dies
DerefOutcomes == {"true", "false", "crash"}
hashes_to(blk, hash) ==
  IF blk = None THEN DerefOutcomes
  ELSE IF hash # NilHash /\ get_hash(blk) = hash THEN {"true"} ELSE {"false"}
opt_has_header(ps, hd) ==
  IF ps = None THEN DerefOutcomes
  ELSE IF has_header(ps, hd) THEN {"true"} ELSE {"false"}
Branch(O, c, T(_), F(_)) ==
  UNION {IF o = "crash" THEN {Crash(c)} ELSE IF o = "true" THEN T(c) ELSE F(c) : o \in O}

(* ------------------------------- ticker ------------------------------- *)
timeout_info(h, r, s) == [height |-> h, round |-> r, step |-> s]
TickIgnoredSameRound(old, ti) ==
  \/ ti.height < old.height
  \/ /\ ti.height = old.height
     /\ ti.round = old.round /\ old.step > 0 /\ ti.step <= old.step
\* the test of tick with ti.step < old.step: a tick equal to old_ti is taken again
TickIgnoredBelow(old, ti) ==
  \/ ti.height < old.height
  \/ /\ ti.height = old.height
     /\ \/ ti.round < old.round
        \/ ti.round = old.round /\ old.step > 0 /\ ti.step < old.step
TickIgnored(old, ti) ==
  \/ ti.height < old.height
  \/ /\ ti.height = old.height
     /\ \/ ti.round < old.round
        \/ ti.round = old.round /\ old.step > 0 /\ ti.step <= old.step
tick(c, ti) ==
  IF TickIgnored(c.old_ti, ti) THEN c
  ELSE [c EXCEPT !.old_ti = ti,
                 !.timers = {[t EXCEPT !.aborted = TRUE] : t \in @} \cup {[ti |-> ti, aborted |-> FALSE]}]
schedule_timeout(c, h, r, s) == tick(c, timeout_info(h, r, s))
schedule_round_0(c) == schedule_timeout(c, c.rs.height, 0, NewHeight)

(* ---------------------------- small helpers --------------------------- *)
update_height(c, h) == [c EXCEPT !.rs.height = h]
update_round_step(c, r, s) == [c EXCEPT !.rs.round = r, !.rs.step = s]
new_step(c) == [c EXCEPT !.n_steps = @ + 1]
publish(c, m) == [c EXCEPT !.mq = Append(@, m)]
has_address(c, addr) == addr \in Validators
get_index_by_address(c, addr) == IF addr \in Validators THEN addr ELSE -1
is_proposal(c, addr) == c.rs.proposer = addr
increment_proposer_priority(c, times) == [c EXCEPT !.rs.proposer = (@ + times) % NumValidators]

(* ------------------------------- voting ------------------------------- *)
vote(type, h, r, bid, idx) ==
  [type |-> type, height |-> h, round |-> r, block_id |-> bid, validator_index |-> idx]
vote_message(v) == [kind |-> "vote", vote |-> v]
sign_vote(c, type, hash, hd) ==
  IF c.priv = None THEN None
  ELSE IF get_index_by_address(c, c.priv.key) < 0 THEN None
  ELSE vote(type, c.rs.height, c.rs.round, block_id(hash, hd), get_index_by_address(c, c.priv.key))
sign_add_vote_inserting(c, type, hash, hd) ==
  IF c.priv = None THEN c
  ELSE IF ~has_address(c, c.priv.key) THEN c
  ELSE IF sign_vote(c, type, hash, hd) = None THEN c
  ELSE LET v == sign_vote(c, type, hash, hd)
       IN publish([c EXCEPT !.rs.votes.sets[v.round][v.type][v.validator_index] = v.block_id],
                  vote_message(v))
sign_add_vote(c, type, hash, hd) ==
  IF c.priv = None THEN c
  ELSE IF ~has_address(c, c.priv.key) THEN c
  ELSE IF sign_vote(c, type, hash, hd) = None THEN c
  ELSE publish(c, vote_message(sign_vote(c, type, hash, hd)))

(* --------------------------- update_to_state -------------------------- *)
update_to_state(c, st) ==
  IF c.rs.commit_round > -1 /\ 0 < c.rs.height /\ c.rs.height # st.last_block_height THEN Throw(c)
  ELSE IF /\ c.local_state # None
          /\ c.local_state.last_block_height > 0
          /\ c.local_state.last_block_height + 1 # c.rs.height THEN Throw(c)
  ELSE IF /\ c.local_state # None
          /\ c.local_state.last_block_height > 0
          /\ c.rs.height = c.local_state.initial_height THEN Throw(c)
  ELSE IF c.local_state # None /\ st.last_block_height <= c.local_state.last_block_height THEN new_step(c)
  \* rs.validators is replaced before the last commit is looked at
  ELSE IF /\ st.last_block_height # 0
          /\ c.rs.commit_round > -1
          /\ ~has_two_thirds_majority(precommits(c, c.rs.commit_round))
    THEN Throw([c EXCEPT !.rs.proposer = st.proposer])
  ELSE IF st.last_block_height # 0 /\ c.rs.commit_round <= -1 /\ c.rs.last_commit = None
    THEN Throw([c EXCEPT !.rs.proposer = st.proposer])
  ELSE LET lc == IF st.last_block_height = 0 THEN None
                 ELSE IF c.rs.commit_round > -1 THEN precommits(c, c.rs.commit_round)
                 ELSE c.rs.last_commit
           h == IF st.last_block_height + 1 = 1 THEN st.initial_height ELSE st.last_block_height + 1
           c1 == update_round_step(update_height(c, h), 0, NewHeight)
       IN new_step([c1 EXCEPT !.rs.proposer = st.proposer,
                              !.rs.last_commit = lc,
                              !.rs.proposal = None,
                              !.rs.proposal_block = None,
                              !.rs.proposal_block_parts = None,
                              !.rs.locked_round = -1,
                              !.rs.locked_block = None,
                              !.rs.locked_block_parts = None,
                              !.rs.valid_round = -1,
                              !.rs.valid_block = None,
                              !.rs.valid_block_parts = None,
                              !.rs.votes = new_height_vote_set,
                              !.rs.commit_round = -1,
                              !.rs.triggered_timeout_precommit = FALSE,
                              !.local_state = st])

(* ------------------------------- commit ------------------------------- *)
finalize_commit(c, height) ==
  IF c.rs.height # height \/ c.rs.step # Commit THEN {c}
  ELSE LET bid == two_thirds_majority(precommits(c, c.rs.commit_round)) IN
    IF bid = None THEN {Throw(c)}
    ELSE Branch(opt_has_header(c.rs.proposal_block_parts, bid.parts), c,
           LAMBDA c1 : Branch(hashes_to(c1.rs.proposal_block, bid.hash), c1,
                         \* ilog(fmt::format("... num_txs={}")) has no argument for its field:
                         \* where the log macro evaluates its argument, fmt::format throws
                         LAMBDA c2 : LET u == update_to_state(Log(c2, <<"finalize_commit", height>>), c2.local_state)
                                     IN {Throw(c2)} \cup (IF u.fatal # "ok" THEN {u} ELSE {schedule_round_0(u)}),
                         LAMBDA c2 : {Throw(c2)}),
           LAMBDA c1 : {Throw(c1)})

try_finalize_commit(c, height) ==
  IF c.rs.height # height THEN {Throw(c)}
  ELSE LET c0 == Log(c, <<"try_finalize_commit", height>>)
           bid == IF c.rs.commit_round \in Rounds
                  THEN two_thirds_majority(precommits(c, c.rs.commit_round)) ELSE None
       IN IF bid = None THEN {c0}
          ELSE IF bid.hash = NilHash THEN {c0}
          ELSE Branch(hashes_to(c0.rs.proposal_block, bid.hash), c0,
                 LAMBDA c1 : finalize_commit(c1, height),
                 LAMBDA c1 : {c1})

enter_commit(c, height, round) ==
  IF c.fatal # "ok" THEN {c}
  ELSE IF c.rs.height # height \/ Commit <= c.rs.step THEN {c}
  ELSE LET c0 == Log(c, <<"enter_commit", height, round>>)
           bid == two_thirds_majority(precommits(c0, round))
           FetchBlock(c1) ==
             Branch(hashes_to(c1.rs.proposal_block, bid.hash), c1,
               LAMBDA c2 : {c2},
               LAMBDA c2 : Branch(opt_has_header(c2.rs.proposal_block_parts, bid.parts), c2,
                             LAMBDA c3 : {c3},
                             LAMBDA c3 : {[c3 EXCEPT !.rs.proposal_block = None,
                                                     !.rs.proposal_block_parts = new_part_set_from_header(bid.parts)]}))
           Body == IF bid = None THEN {Throw(c0)}
                   ELSE Branch(hashes_to(c0.rs.locked_block, bid.hash), c0,
                          LAMBDA c1 : FetchBlock([c1 EXCEPT !.rs.proposal_block = c1.rs.locked_block,
                                                            !.rs.proposal_block_parts = c1.rs.locked_block_parts]),
                          LAMBDA c1 : FetchBlock(c1))
       IN Defer(Body,
            LAMBDA s : try_finalize_commit(
                         new_step([update_round_step(s, round, Commit) EXCEPT !.rs.commit_round = round]),
                         height))

(* ------------------------------ precommit ----------------------------- *)
enter_precommit_wait(c, height, round) ==
  IF c.fatal # "ok" THEN {c}
  ELSE IF \/ c.rs.height # height
          \/ round < c.rs.round
          \/ (c.rs.round = round /\ c.rs.triggered_timeout_precommit) THEN {c}
  ELSE IF has_two_thirds_any(precommits(c, round)) THEN {Throw(c)}
  ELSE Defer({schedule_timeout(Log(c, <<"enter_precommit_wait", height, round>>), height, round, PrecommitWait)},
         LAMBDA s : {new_step([s EXCEPT !.rs.triggered_timeout_precommit = TRUE])})

Unlock(c) == [c EXCEPT !.rs.locked_round = -1, !.rs.locked_block = None, !.rs.locked_block_parts = None]

enter_precommit(c, height, round) ==
  IF c.fatal # "ok" THEN {c}
  ELSE IF \/ c.rs.height # height
          \/ round < c.rs.round
          \/ (c.rs.round = round /\ Precommit <= c.rs.step) THEN {c}
  ELSE LET c0 == Log(c, <<"enter_precommit", height, round>>)
           bid == two_thirds_majority(prevotes(c0, round))
           Body ==
             IF bid = None THEN {sign_add_vote(c0, PrecommitType, NilHash, ZeroHeader)}
             ELSE IF pol_info(c0) < round THEN {Throw(c0)}
             ELSE IF bid.hash = NilHash
               THEN {sign_add_vote(IF c0.rs.locked_block = None THEN c0 ELSE Unlock(c0),
                                   PrecommitType, NilHash, ZeroHeader)}
             ELSE Branch(hashes_to(c0.rs.locked_block, bid.hash), c0,
                    LAMBDA c1 : {sign_add_vote([c1 EXCEPT !.rs.locked_round = round],
                                               PrecommitType, bid.hash, bid.parts)},
                    LAMBDA c1 : Branch(hashes_to(c1.rs.proposal_block, bid.hash), c1,
                      LAMBDA c2 : {sign_add_vote([c2 EXCEPT !.rs.locked_round = round,
                                                            !.rs.locked_block = c2.rs.proposal_block,
                                                            !.rs.locked_block_parts = c2.rs.proposal_block_parts],
                                                 PrecommitType, bid.hash, bid.parts)},
                      LAMBDA c2 : Branch(opt_has_header(c2.rs.proposal_block_parts, bid.parts), Unlock(c2),
                        LAMBDA c3 : {sign_add_vote(c3, PrecommitType, NilHash, ZeroHeader)},
                        LAMBDA c3 : {sign_add_vote([c3 EXCEPT !.rs.proposal_block = None,
                                                              !.rs.proposal_block_parts =
                                                                 new_part_set_from_header(bid.parts)],
                                                   PrecommitType, NilHash, ZeroHeader)})))
       IN Defer(Body, LAMBDA s : {new_step(update_round_step(s, round, Precommit))})

(* ------------------------------- prevote ------------------------------ *)
enter_prevote_wait_any_round(c, height, round) ==
  IF c.fatal # "ok" THEN {c}
  ELSE IF \/ c.rs.height # height
          \/ (c.rs.round = round /\ PrevoteWait <= c.rs.step) THEN {c}
  ELSE IF has_two_thirds_any(prevotes(c, round)) THEN {Throw(c)}
  ELSE Defer({schedule_timeout(Log(c, <<"enter_prevote_wait", height, round>>), height, round, PrevoteWait)},
         LAMBDA s : {new_step(update_round_step(s, round, PrevoteWait))})
enter_prevote_wait(c, height, round) ==
  IF c.fatal # "ok" THEN {c}
  ELSE IF \/ c.rs.height # height
          \/ round < c.rs.round
          \/ (c.rs.round = round /\ PrevoteWait <= c.rs.step) THEN {c}
  ELSE IF has_two_thirds_any(prevotes(c, round)) THEN {Throw(c)}
  ELSE Defer({schedule_timeout(Log(c, <<"enter_prevote_wait", height, round>>), height, round, PrevoteWait)},
         LAMBDA s : {new_step(update_round_step(s, round, PrevoteWait))})

\* do_prevote that looks at the proposal block before the lock
do_prevote_proposal_first(c, height, round) ==
  IF c.rs.proposal_block # None
    THEN sign_add_vote(c, PrevoteType, get_hash(c.rs.proposal_block), c.rs.proposal_block_parts.header)
  ELSE IF c.rs.locked_block # None
    THEN sign_add_vote(c, PrevoteType, get_hash(c.rs.locked_block), c.rs.locked_block_parts.header)
  ELSE sign_add_vote(c, PrevoteType, NilHash, ZeroHeader)
do_prevote(c, height, round) ==
  IF c.rs.locked_block # None
    THEN sign_add_vote(c, PrevoteType, get_hash(c.rs.locked_block), c.rs.locked_block_parts.header)
  ELSE IF c.rs.proposal_block = None
    THEN sign_add_vote(c, PrevoteType, NilHash, ZeroHeader)
  ELSE sign_add_vote(c, PrevoteType, get_hash(c.rs.proposal_block), c.rs.proposal_block_parts.header)

enter_prevote(c, height, round) ==
  IF c.fatal # "ok" THEN {c}
  ELSE IF \/ c.rs.height # height
          \/ round < c.rs.round
          \/ (c.rs.round = round /\ Prevote <= c.rs.step) THEN {c}
  ELSE Defer({do_prevote(Log(c, <<"enter_prevote", height, round>>), height, round)},
         LAMBDA s : {new_step(update_round_step(s, round, Prevote))})

(* ------------------------------- propose ------------------------------ *)
is_proposal_complete(c) ==
  IF c.rs.proposal = None \/ c.rs.proposal_block = None THEN FALSE
  ELSE IF c.rs.proposal.pol_round < 0 THEN TRUE
  ELSE has_two_thirds_majority(prevotes(c, c.rs.proposal.pol_round))

new_proposal(h, r, pol, bid) == [height |-> h, round |-> r, pol_round |-> pol, block_id |-> bid]
proposal_message(p) == [kind |-> "proposal", proposal |-> p]

RECURSIVE PublishTimes(_, _, _)
PublishTimes(c, m, n) == IF n = 0 THEN c ELSE PublishTimes(publish(c, m), m, n - 1)

decide_proposal(c, height, round) ==
  IF c.rs.valid_block # None
    THEN LET prop == new_proposal(height, round, c.rs.valid_round,
                                  block_id(get_hash(c.rs.valid_block), c.rs.valid_block_parts.header))
         IN {PublishTimes(publish(c, proposal_message(prop)), proposal_message(prop),
                          c.rs.valid_block_parts.header.total)}
  ELSE IF c.priv = None THEN {Throw(c)}
  ELSE IF c.rs.height = c.local_state.initial_height THEN {c}
  ELSE IF c.rs.last_commit = None THEN {c, Crash(c)}
  ELSE {c}

enter_propose(c, height, round) ==
  IF c.fatal # "ok" THEN {c}
  ELSE IF \/ c.rs.height # height
          \/ round < c.rs.round
          \/ (c.rs.round = round /\ Propose <= c.rs.step) THEN {c}
  ELSE LET c0 == schedule_timeout(Log(c, <<"enter_propose", height, round>>), height, round, Propose)
           Body == IF c0.priv = None THEN {c0}
                   ELSE IF ~has_address(c0, c0.priv.key) THEN {c0}
                   ELSE IF is_proposal(c0, c0.priv.key) THEN decide_proposal(c0, height, round)
                   ELSE {c0}
       IN Defer(Body,
            LAMBDA s : LET s1 == new_step(update_round_step(s, round, Propose))
                       IN IF is_proposal_complete(s1) THEN enter_prevote(s1, height, s1.rs.round) ELSE {s1})

enter_new_round_keeps_proposal(c, height, round) ==
  IF c.fatal # "ok" THEN {c}
  ELSE IF \/ c.rs.height # height
          \/ round < c.rs.round
          \/ (c.rs.round = round /\ c.rs.step # NewHeight) THEN {c}
  ELSE LET c0 == Log(c, <<"enter_new_round", height, round>>)
           c1 == IF c0.rs.round < round THEN increment_proposer_priority(c0, round - c0.rs.round) ELSE c0
           c2 == update_round_step(c1, round, NewRound)
           c4 == [c2 EXCEPT !.rs.votes = set_round(@, round + 1),
                            !.rs.triggered_timeout_precommit = FALSE]
       IN enter_propose(c4, height, round)
enter_new_round(c, height, round) ==
  IF c.fatal # "ok" THEN {c}
  ELSE IF \/ c.rs.height # height
          \/ round < c.rs.round
          \/ (c.rs.round = round /\ c.rs.step # NewHeight) THEN {c}
  ELSE LET c0 == Log(c, <<"enter_new_round", height, round>>)
           c1 == IF c0.rs.round < round THEN increment_proposer_priority(c0, round - c0.rs.round) ELSE c0
           c2 == update_round_step(c1, round, NewRound)
           c3 == IF round = 0 THEN c2
                 ELSE [c2 EXCEPT !.rs.proposal = None,
                                 !.rs.proposal_block = None,
                                 !.rs.proposal_block_parts = None]
           c4 == [c3 EXCEPT !.rs.votes = set_round(@, round + 1),
                            !.rs.triggered_timeout_precommit = FALSE]
       IN enter_propose(c4, height, round)

(* ------------------------------- timeout ------------------------------ *)
handle_timeout_same_round(c, ti) ==
  IF \/ ti.height # c.rs.height
     \/ (ti.round = c.rs.round /\ ti.step < c.rs.step) THEN {c}
  ELSE IF ti.step = NewHeight THEN enter_new_round(c, ti.height, 0)
  ELSE IF ti.step = NewRound THEN enter_propose(c, ti.height, 0)
  ELSE IF ti.step = Propose THEN enter_prevote(c, ti.height, ti.round)
  ELSE IF ti.step = PrevoteWait THEN enter_precommit(c, ti.height, ti.round)
  ELSE IF ti.step = PrecommitWait
    THEN Bind(enter_precommit(c, ti.height, ti.round),
              LAMBDA s : enter_new_round(s, ti.height, ti.round + 1))
  ELSE {Throw(c)}
handle_timeout_round_of_ti(c, ti) ==
  IF \/ ti.height # c.rs.height
     \/ ti.round < c.rs.round
     \/ (ti.round = c.rs.round /\ ti.step < c.rs.step) THEN {c}
  ELSE IF ti.step = NewHeight THEN enter_new_round(c, ti.height, 0)
  ELSE IF ti.step = NewRound THEN enter_propose(c, ti.height, ti.round)
  ELSE IF ti.step = Propose THEN enter_prevote(c, ti.height, ti.round)
  ELSE IF ti.step = PrevoteWait THEN enter_precommit(c, ti.height, ti.round)
  ELSE IF ti.step = PrecommitWait
    THEN Bind(enter_precommit(c, ti.height, ti.round),
              LAMBDA s : enter_new_round(s, ti.height, ti.round + 1))
  ELSE {Throw(c)}
handle_timeout(c, ti) ==
  IF \/ ti.height # c.rs.height
     \/ ti.round < c.rs.round
     \/ (ti.round = c.rs.round /\ ti.step < c.rs.step) THEN {c}
  ELSE IF ti.step = NewHeight THEN enter_new_round(c, ti.height, 0)
  ELSE IF ti.step = NewRound THEN enter_propose(c, ti.height, 0)
  ELSE IF ti.step = Propose THEN enter_prevote(c, ti.height, ti.round)
  ELSE IF ti.step = PrevoteWait THEN enter_precommit(c, ti.height, ti.round)
  ELSE IF ti.step = PrecommitWait
    THEN Bind(enter_precommit(c, ti.height, ti.round),
              LAMBDA s : enter_new_round(s, ti.height, ti.round + 1))
  ELSE {Throw(c)}

(* --------------------------- message handling ------------------------- *)
set_proposal(c, msg) ==
  IF c.rs.proposal = None THEN c
  ELSE IF msg.height # c.rs.height \/ msg.round # c.rs.round THEN c
  ELSE IF msg.pol_round < -1 \/ (msg.pol_round >= 0 /\ msg.pol_round >= msg.round) THEN c
  ELSE [c EXCEPT !.rs.proposal = msg,
                 !.rs.proposal_block_parts =
                    IF @ = None THEN new_part_set_from_header(msg.block_id.parts) ELSE @]

\* part_set::add_part : false on a duplicate, an index out of range or a part that does not verify against the header
part_accepted(ps, msg) ==
  /\ msg.index \in 0 .. (ps.header.total - 1)
  /\ msg.index \notin ps.have
  /\ msg.root = ps.header.hash
add_part(ps, msg) ==
  IF part_accepted(ps, msg) THEN [ps EXCEPT !.have = @ \cup {msg.index}, !.byte_size = @ + 1] ELSE ps

\* when the part set completes, the block is not decoded (todo at line 880): proposal_block
\* stays as it was, and the log line that follows reads rs.proposal_block->header.height
add_proposal_block_part(c, msg) ==
  IF c.rs.height # msg.height THEN {c}
  ELSE IF c.rs.proposal_block_parts = None THEN {c}
  ELSE LET added == part_accepted(c.rs.proposal_block_parts, msg)
           c1 == Log([c EXCEPT !.rs.proposal_block_parts = add_part(@, msg)],
                     <<"add_proposal_block_part", added>>)
           bid == two_thirds_majority(prevotes(c1, c1.rs.round))
           Steps(c2) ==
             IF c2.rs.step <= Propose /\ is_proposal_complete(c2)
               THEN Bind(enter_prevote(c2, msg.height, c2.rs.round),
                         LAMBDA s : IF bid # None THEN enter_precommit(s, msg.height, s.rs.round) ELSE {s})
             ELSE IF c2.rs.step = Commit THEN try_finalize_commit(c2, msg.height)
             ELSE {c2}
       IN IF c1.rs.proposal_block_parts.byte_size > c1.local_state.max_bytes THEN {c1}
          ELSE IF added /\ is_complete(c1.rs.proposal_block_parts)
            THEN (IF c1.rs.proposal_block = None THEN {Crash(c1)} ELSE {}) \cup
                 (IF bid # None /\ ~is_zero(bid) /\ c1.rs.valid_round < c1.rs.round
                    THEN Branch(hashes_to(c1.rs.proposal_block, bid.hash), c1,
                           LAMBDA c2 : Steps([c2 EXCEPT !.rs.valid_round = c2.rs.round,
                                                        !.rs.valid_block = c2.rs.proposal_block,
                                                        !.rs.valid_block_parts = c2.rs.proposal_block_parts]),
                           LAMBDA c2 : Steps(c2))
                  ELSE Steps(c1))
          ELSE {c1}

\* a polka for bid in round v.round that does not match the block the node is locked on
pol_unlocks_any_round(c, v, bid) ==
  /\ c.rs.locked_block # None
  /\ c.rs.locked_round < v.round
  /\ hashes_to(c.rs.locked_block, bid.hash) = {"false"}
pol_unlocks(c, v, bid) ==
  /\ c.rs.locked_block # None
  /\ c.rs.locked_round < v.round
  /\ v.round <= c.rs.round
  /\ hashes_to(c.rs.locked_block, bid.hash) = {"false"}

\* add_vote that takes a precommit of the previous height in every step
add_vote_any_step(c, v) ==
  IF v.height + 1 = c.rs.height /\ v.type = PrecommitType
    THEN IF c.rs.last_commit = None
           THEN {c, Crash(c)} \cup
                (IF c.skip_timeout_commit THEN enter_new_round(c, c.rs.height, 0) ELSE {})
         ELSE IF v.validator_index \notin Validators THEN {c}
         ELSE IF c.rs.last_commit[v.validator_index] # None THEN {c}
         ELSE LET c1 == [c EXCEPT !.rs.last_commit[v.validator_index] = v.block_id]
              IN IF c1.skip_timeout_commit /\ has_all(c1.rs.last_commit)
                   THEN enter_new_round(c1, c1.rs.height, 0) ELSE {c1}
  ELSE IF v.height # c.rs.height THEN {c}
  ELSE IF ~hvs_accepts(c, v) THEN {c}
  ELSE LET height == c.rs.height
           c1 == Log([c EXCEPT !.rs.votes = hvs_add_vote(@, v)], <<"add_vote", v.type, v.round>>)
       IN IF v.type = PrevoteType
            THEN LET pv == prevotes(c1, v.round)
                     bid == two_thirds_majority(pv)
                     c2 == IF bid # None /\ pol_unlocks(c1, v, bid)
                           THEN Log(Unlock(c1), <<"unlock", v.round>>) ELSE c1
                     FixParts(c3) ==
                       Branch(opt_has_header(c3.rs.proposal_block_parts, bid.parts), c3,
                         LAMBDA c4 : {c4},
                         LAMBDA c4 : {[c4 EXCEPT !.rs.proposal_block_parts = new_part_set_from_header(bid.parts)]})
                     Valid == IF bid # None /\ bid.hash # NilHash /\ c2.rs.valid_round < v.round /\ v.round = c2.rs.round
                                THEN Branch(hashes_to(c2.rs.proposal_block, bid.hash), c2,
                                       LAMBDA c3 : FixParts([c3 EXCEPT !.rs.valid_round = v.round,
                                                                        !.rs.valid_block = c3.rs.proposal_block,
                                                                        !.rs.valid_block_parts = c3.rs.proposal_block_parts]),
                                       LAMBDA c3 : FixParts([c3 EXCEPT !.rs.proposal_block = None]))
                              ELSE {c2}
                     Steps(c5) ==
                       IF c5.rs.round < v.round /\ has_two_thirds_any(pv)
                         THEN enter_new_round(c5, height, v.round)
                       ELSE IF c5.rs.round = v.round /\ Prevote <= c5.rs.step
                         THEN IF bid # None /\ (is_proposal_complete(c5) \/ bid.hash = NilHash)
                                THEN enter_precommit(c5, height, v.round)
                              ELSE IF has_two_thirds_any(pv) THEN enter_prevote_wait(c5, height, v.round)
                              ELSE {c5}
                       ELSE IF /\ c5.rs.proposal # None
                               /\ 0 <= c5.rs.proposal.pol_round
                               /\ c5.rs.proposal.pol_round = v.round
                         THEN IF is_proposal_complete(c5) THEN enter_prevote(c5, height, c5.rs.round) ELSE {c5}
                       ELSE {c5}
                 IN Bind(Valid, Steps)
          ELSE LET pc == precommits(c1, v.round)
                   bid == two_thirds_majority(pc)
               IN IF bid # None
                    THEN Bind(Bind(enter_new_round(c1, height, v.round),
                                   LAMBDA s : enter_precommit(s, height, v.round)),
                              LAMBDA s : IF bid.hash # NilHash
                                THEN Bind(enter_commit(s, height, v.round),
                                          LAMBDA t : IF t.skip_timeout_commit /\ has_all(pc)
                                                       THEN enter_new_round(t, t.rs.height, 0) ELSE {t})
                                ELSE enter_precommit_wait(s, height, v.round))
                  ELSE IF c1.rs.round <= v.round /\ has_two_thirds_any(pc)
                    THEN Bind(enter_new_round(c1, height, v.round),
                              LAMBDA s : enter_precommit_wait(s, height, v.round))
                  ELSE {c1}
add_vote(c, v) ==
  IF v.height + 1 = c.rs.height /\ v.type = PrecommitType
    THEN IF c.rs.step # NewHeight THEN {c}
         ELSE IF c.rs.last_commit = None
           THEN {c, Crash(c)} \cup
                (IF c.skip_timeout_commit THEN enter_new_round(c, c.rs.height, 0) ELSE {})
         ELSE IF v.validator_index \notin Validators THEN {c}
         ELSE IF c.rs.last_commit[v.validator_index] # None THEN {c}
         ELSE LET c1 == [c EXCEPT !.rs.last_commit[v.validator_index] = v.block_id]
              IN IF c1.skip_timeout_commit /\ has_all(c1.rs.last_commit)
                   THEN enter_new_round(c1, c1.rs.height, 0) ELSE {c1}
  ELSE IF v.height # c.rs.height THEN {c}
  ELSE IF ~hvs_accepts(c, v) THEN {c}
  ELSE LET height == c.rs.height
           c1 == Log([c EXCEPT !.rs.votes = hvs_add_vote(@, v)], <<"add_vote", v.type, v.round>>)
       IN IF v.type = PrevoteType
            THEN LET pv == prevotes(c1, v.round)
                     bid == two_thirds_majority(pv)
                     c2 == IF bid # None /\ pol_unlocks(c1, v, bid)
                           THEN Log(Unlock(c1), <<"unlock", v.round>>) ELSE c1
                     FixParts(c3) ==
                       Branch(opt_has_header(c3.rs.proposal_block_parts, bid.parts), c3,
                         LAMBDA c4 : {c4},
                         LAMBDA c4 : {[c4 EXCEPT !.rs.proposal_block_parts = new_part_set_from_header(bid.parts)]})
                     Valid == IF bid # None /\ bid.hash # NilHash /\ c2.rs.valid_round < v.round /\ v.round = c2.rs.round
                                THEN Branch(hashes_to(c2.rs.proposal_block, bid.hash), c2,
                                       LAMBDA c3 : FixParts([c3 EXCEPT !.rs.valid_round = v.round,
                                                                        !.rs.valid_block = c3.rs.proposal_block,
                                                                        !.rs.valid_block_parts = c3.rs.proposal_block_parts]),
                                       LAMBDA c3 : FixParts([c3 EXCEPT !.rs.proposal_block = None]))
                              ELSE {c2}
                     Steps(c5) ==
                       IF c5.rs.round < v.round /\ has_two_thirds_any(pv)
                         THEN enter_new_round(c5, height, v.round)
                       ELSE IF c5.rs.round = v.round /\ Prevote <= c5.rs.step
                         THEN IF bid # None /\ (is_proposal_complete(c5) \/ bid.hash = NilHash)
                                THEN enter_precommit(c5, height, v.round)
                              ELSE IF has_two_thirds_any(pv) THEN enter_prevote_wait(c5, height, v.round)
                              ELSE {c5}
                       ELSE IF /\ c5.rs.proposal # None
                               /\ 0 <= c5.rs.proposal.pol_round
                               /\ c5.rs.proposal.pol_round = v.round
                         THEN IF is_proposal_complete(c5) THEN enter_prevote(c5, height, c5.rs.round) ELSE {c5}
                       ELSE {c5}
                 IN Bind(Valid, Steps)
          ELSE LET pc == precommits(c1, v.round)
                   bid == two_thirds_majority(pc)
               IN IF bid # None
                    THEN Bind(Bind(enter_new_round(c1, height, v.round),
                                   LAMBDA s : enter_precommit(s, height, v.round)),
                              LAMBDA s : IF bid.hash # NilHash
                                THEN Bind(enter_commit(s, height, v.round),
                                          LAMBDA t : IF t.skip_timeout_commit /\ has_all(pc)
                                                       THEN enter_new_round(t, t.rs.height, 0) ELSE {t})
                                ELSE enter_precommit_wait(s, height, v.round))
                  ELSE IF c1.rs.round <= v.round /\ has_two_thirds_any(pc)
                    THEN Bind(enter_new_round(c1, height, v.round),
                              LAMBDA s : enter_precommit_wait(s, height, v.round))
                  ELSE {c1}

try_add_vote(c, msg) == add_vote(c, msg.vote)

\* message_handler, driven by receive_routine
receive_routine(c, mi) ==
  IF mi.kind = "proposal" THEN {set_proposal(Log(c, <<"set_proposal">>), mi.proposal)}
  ELSE IF mi.kind = "part" THEN add_proposal_block_part(c, mi.part)
  ELSE try_add_vote(c, mi)

set_priv_validator(c, key) == [c EXCEPT !.priv = [key |-> key]]

(* ---------------------------- construction ---------------------------- *)
\* state passed to consensus_state::new_state : the genesis state
Genesis == [last_block_height |-> 0, initial_height |-> 1, proposer |-> 0, max_bytes |-> NumParts]

\* consensus_state::consensus_state()
Fresh(skip) ==
  [rs |-> [height |-> 0, round |-> 0, step |-> NewHeight,
           proposal |-> None, proposal_block |-> None, proposal_block_parts |-> None,
           locked_round |-> -1, locked_block |-> None, locked_block_parts |-> None,
           valid_round |-> -1, valid_block |-> None, valid_block_parts |-> None,
           votes |-> new_height_vote_set, commit_round |-> -1, last_commit |-> None,
           proposer |-> 0, triggered_timeout_precommit |-> FALSE],
   local_state |-> None,
   skip_timeout_commit |-> skip,
   priv |-> None,
   old_ti |-> timeout_info(0, 0, 0),
   timers |-> {},
   mq |-> <<>>,
   n_steps |-> 0,
   log |-> <<>>,
   fatal |-> "ok"]

new_state(skip, st) == update_to_state(Fresh(skip), st)

(* ------------------------------- actions ------------------------------ *)
VARIABLE cs
vars == <<cs>>

Init == \E skip \in BOOLEAN : cs = new_state(skip, Genesis)

Start(c) == [c EXCEPT !.log = <<>>]

\* key the private validator of this node holds: validator 0's
PrivKeys == {0}

PeerBlockIds == {NilBlockId} \cup {BlockIdOf(b) : b \in PeerBlocks}
PeerVotes ==
  {vote(t, h, r, bid, i) : t \in VoteTypes, h \in {1}, r \in Rounds, bid \in PeerBlockIds, i \in Validators}
    \cup {vote(t, h, 0, NilBlockId, 1) : t \in VoteTypes, h \in {0, 2}}
    \cup {vote(t, 1, 0, NilBlockId, NumValidators) : t \in VoteTypes}
PeerProposals ==
  {new_proposal(1, r, pol, BlockIdOf(b)) : r \in Rounds, pol \in {-1, 0}, b \in PeerBlocks}
    \cup {new_proposal(2, 0, -1, BlockIdOf(b)) : b \in PeerBlocks}
    \cup {new_proposal(1, 0, -2, BlockIdOf(b)) : b \in PeerBlocks}
PeerParts ==
  {[height |-> h, round |-> 0, index |-> i, root |-> b] : h \in {1, 2}, i \in 0 .. NumParts, b \in PeerBlocks}

SetPrivValidator ==
  /\ cs.fatal = "ok"
  /\ cs.priv = None
  /\ \E key \in PrivKeys : cs' = set_priv_validator(Start(cs), key)

ReceiveVote ==
  /\ cs.fatal = "ok"
  /\ NumStored(cs) < MaxVotes
  /\ \E v \in PeerVotes :
       /\ cs.priv # None => v.validator_index # cs.priv.key
       /\ cs' \in receive_routine(Start(cs), vote_message(v))

ReceiveProposal ==
  /\ cs.fatal = "ok"
  /\ \E p \in PeerProposals : cs' \in receive_routine(Start(cs), proposal_message(p))

ReceiveBlockPart ==
  /\ cs.fatal = "ok"
  /\ \E m \in PeerParts : cs' \in receive_routine(Start(cs), [kind |-> "part", part |-> m])

ReceiveInternal ==
  /\ cs.fatal = "ok"
  /\ cs.mq # <<>>
  /\ NumStored(cs) < MaxVotes
  /\ cs' \in receive_routine(Start([cs EXCEPT !.mq = Tail(@)]), Head(cs.mq))

\* the wait handler of a timer runs (expired or cancelled) and calls tock
Tock ==
  /\ cs.fatal = "ok"
  /\ \E t \in cs.timers :
       /\ t.ti.step = PrecommitWait => t.ti.round < MaxRound
       /\ cs' \in handle_timeout(Log(Start([cs EXCEPT !.timers = @ \ {t}]), <<"tock", t.ti, t.aborted>>), t.ti)

Next ==
  \/ SetPrivValidator
  \/ ReceiveVote
  \/ ReceiveProposal
  \/ ReceiveBlockPart
  \/ ReceiveInternal
  \/ Tock

Spec == Init /\ [][Next]_vars

(* ------------------- handlers applied to a round state ---------------- *)
\* blocks the node may hold as its proposal block or its locked block
LocalBlocks == {"A", "B"}

\* the node has the proposal for b, with none of its parts (whole = FALSE) or with the whole block
WithProposal(c, b, whole) ==
  [c EXCEPT !.rs.proposal = new_proposal(c.rs.height, c.rs.round, -1, BlockIdOf(b)),
            !.rs.proposal_block = IF whole THEN block(b) ELSE None,
            !.rs.proposal_block_parts =
               IF whole THEN FullPartSet(b) ELSE new_part_set_from_header(header(b))]
\* the node saw the polka for b in round lr and locked on it
WithLock(c, b, lr) ==
  [c EXCEPT !.rs.locked_round = lr,
            !.rs.locked_block = block(b),
            !.rs.locked_block_parts = FullPartSet(b),
            !.rs.valid_round = lr,
            !.rs.valid_block = block(b),
            !.rs.valid_block_parts = FullPartSet(b),
            !.rs.votes.sets[lr][PrevoteType] = [i \in Validators |-> BlockIdOf(b)]]
\* every validator but validator 0 already voted bid in round vr
WithVote(c, t, vr, bid) ==
  IF \E i \in Validators : c.rs.votes.sets[vr][t][i] # None THEN c
  ELSE [c EXCEPT !.rs.votes.sets[vr][t] = [i \in Validators |-> IF i = 0 THEN None ELSE bid]]

\* a node in round r of height 1: built by enter_new_round, then moved to step s
InRound(skip, r, s) ==
  {[c EXCEPT !.rs.step = s, !.log = <<>>] :
     c \in enter_new_round(set_priv_validator(new_state(skip, Genesis), 0), 1, r)}

Holdings == {<<"none", "A">>, <<"proposal", "A">>, <<"block", "A">>, <<"block", "B">>}
Hold(c, hd) ==
  IF hd[1] = "none" THEN c ELSE WithProposal(c, hd[2], hd[1] = "block")
Locks(r) == {<<"none", "A", 0>>} \cup {<<"lock", b, lr>> : b \in LocalBlocks, lr \in 0 .. r}
Lock(c, lk) ==
  IF lk[1] = "none" THEN c ELSE WithLock(c, lk[2], lk[3])
PriorVotes ==
  {<<"none", PrevoteType, 0, NilBlockId>>}
    \cup {<<"vote", t, vr, bid>> : t \in VoteTypes, vr \in Rounds,
                                   bid \in {NilBlockId} \cup {BlockIdOf(b) : b \in LocalBlocks}}
Prior(c, pv) ==
  IF pv[1] = "none" THEN c ELSE WithVote(c, pv[2], pv[3], pv[4])

DrawnSteps == {Propose, Prevote, PrevoteWait, Precommit}

RoundStates ==
  {Prior(Lock(Hold(c, hd), lk), pv) :
     c \in UNION {InRound(skip, r, s) : skip \in BOOLEAN, r \in Rounds, s \in DrawnSteps},
     hd \in Holdings, lk \in Locks(MaxRound), pv \in PriorVotes}

InitRS == cs \in {c \in RoundStates : c.rs.locked_round <= c.rs.round}

TimeoutInfos == {timeout_info(h, r, s) : h \in {1}, r \in Rounds, s \in NewHeight .. Commit}

\* one message is handed to receive_routine
CallReceive ==
  /\ cs.log = <<>>
  /\ \E mi \in {vote_message(v) : v \in PeerVotes}
               \cup {proposal_message(p) : p \in PeerProposals}
               \cup {[kind |-> "part", part |-> m] : m \in PeerParts} :
       cs' \in receive_routine(Log(cs, <<"call", "receive_routine", mi>>), mi)

\* one timeout is scheduled
CallScheduleTimeout ==
  /\ cs.log = <<>>
  /\ \E ti \in TimeoutInfos :
       cs' = schedule_timeout(Log(cs, <<"call", "schedule_timeout", ti>>), ti.height, ti.round, ti.step)

\* a block part is handed to receive_routine while the node waits in step Commit
CallReceivePartInCommit ==
  /\ cs.fatal = "ok"
  /\ cs.log # <<>>
  /\ cs.rs.step = Commit
  /\ \E m \in PeerParts :
       cs' \in receive_routine(Log(Start(cs), <<"call", "receive_routine", [kind |-> "part", part |-> m]>>),
                               [kind |-> "part", part |-> m])

NextRS ==
  \/ CallReceive
  \/ CallScheduleTimeout
  \/ Tock
  \/ CallReceivePartInCommit

SpecRS == InitRS /\ [][NextRS]_vars

(* ---------------- handlers called on a round state ------------------- *)
EnterNames ==
  {"enter_new_round", "enter_propose", "enter_prevote", "enter_prevote_wait",
   "enter_precommit", "enter_precommit_wait", "enter_commit"}
\* the call name(h, r) of one of the enter_ handlers
Enter(c, name, h, r) ==
  IF name = "enter_new_round" THEN enter_new_round(c, h, r)
  ELSE IF name = "enter_propose" THEN enter_propose(c, h, r)
  ELSE IF name = "enter_prevote" THEN enter_prevote(c, h, r)
  ELSE IF name = "enter_prevote_wait" THEN enter_prevote_wait(c, h, r)
  ELSE IF name = "enter_precommit" THEN enter_precommit(c, h, r)
  ELSE IF name = "enter_precommit_wait" THEN enter_precommit_wait(c, h, r)
  ELSE enter_commit(c, h, r)

\* round states in which enter_precommit_wait already ran for the current round
Waiting(c) ==
  {[s EXCEPT !.log = <<>>] :
     s \in {t \in enter_precommit_wait(c, c.rs.height, c.rs.round) : t.fatal = "ok"}}

InitEnter ==
  cs \in UNION {{c} \cup Waiting(c) :
                  c \in {d \in RoundStates : d.rs.locked_round <= d.rs.round /\ ~d.skip_timeout_commit}}

\* (height, round) handed to the handlers: every round of the node's height 1, and round 0
\* of the height after it
CallHeightRounds == {<<1, r>> : r \in Rounds} \cup {<<2, 0>>}
\* TimeoutInfos handed to handle_timeout: of every round of the node's height, and of round 0
\* of an earlier and of a later height
TockInfos ==
  {timeout_info(1, r, s) : r \in Rounds, s \in NewHeight .. Commit}
    \cup {timeout_info(h, 0, s) : h \in {0, 2}, s \in NewHeight .. Commit}

\* one of the enter_ handlers is called
CallEnter ==
  /\ cs.log = <<>>
  /\ \E name \in EnterNames, hr \in CallHeightRounds :
       cs' \in Enter(Log(cs, <<"call", name, hr[1], hr[2]>>), name, hr[1], hr[2])

\* handle_timeout is called
CallHandleTimeout ==
  /\ cs.log = <<>>
  /\ \E ti \in TockInfos :
       cs' \in handle_timeout(Log(cs, <<"call", "handle_timeout", ti>>), ti)

\* the subscription of the internal message queue hands its oldest message to receive_routine
CallReceiveInternal ==
  /\ cs.fatal = "ok"
  /\ cs.mq # <<>>
  /\ cs' \in receive_routine(Log(Start([cs EXCEPT !.mq = Tail(@)]),
                                  <<"call", "receive_routine", Head(cs.mq)>>),
                              Head(cs.mq))

NextEnter ==
  \/ CallEnter
  \/ CallHandleTimeout
  \/ CallReceiveInternal

SpecEnter == InitEnter /\ [][NextEnter]_vars

(* ------------------- block parts under a byte limit -------------------- *)
\* values of consensus_params.block.max_bytes: from too small for any part up to the whole block
MaxBytesChoices == 0 .. NumParts

\* round states that expect block parts, under each byte limit
InitParts ==
  cs \in {[c EXCEPT !.local_state.max_bytes = mb] :
            c \in {d \in RoundStates : d.rs.locked_round <= d.rs.round /\ d.rs.proposal_block_parts # None},
            mb \in MaxBytesChoices}

\* one block part after the other is handed to receive_routine
CallReceivePart ==
  /\ cs.fatal = "ok"
  /\ \E m \in PeerParts :
       cs' \in receive_routine(Log(Start(cs), <<"call", "receive_routine", [kind |-> "part", part |-> m]>>),
                               [kind |-> "part", part |-> m])

NextParts == CallReceivePart

SpecParts == InitParts /\ [][NextParts]_vars

(* ------------------------- mutexes and threads ------------------------ *)
\* threads that run handlers: the application thread and the threads of thread_pool
NumThreads == 2
Threads == 1 .. NumThreads
\* schedule_timeout calls one handler run can make
MaxSchedules == 2
\* timer callbacks posted to the thread pool and not yet run
MaxPending == 2
\* no thread owns the mutex
Free == 0

\* one thread: where it is, what it runs ("none", "msg", "timer", "query"), and the
\* schedule_timeout calls its handler still makes
IdleThread == [pc |-> "idle", job |-> "none", ticks |-> 0]

\* the object right after the constructor returned: both mutexes free, no timer armed
LockInit ==
  [mtx |-> Free, timeout_ticker_mtx |-> Free,
   th |-> [t \in Threads |-> IdleThread],
   armed |-> FALSE, ready |-> 0]

\* receive_routine is entered with a message (message_handler), or a getter is called
begin_call(c, t, job, k) == [c EXCEPT !.th[t] = [pc |-> "want_mtx", job |-> job, ticks |-> k]]
\* the thread pool runs a posted timer callback: the lambda of async_wait calls tock
begin_tock(c, t, k) ==
  [c EXCEPT !.ready = @ - 1, !.th[t] = [pc |-> "tock", job |-> "timer", ticks |-> k]]
\* tock calls handle_timeout
tock_calls_handle_timeout(c, t) == [c EXCEPT !.th[t].pc = "want_mtx"]
\* std::lock_guard<std::mutex> g(mtx) in message_handler, handle_timeout and the getters
lock_mtx(c, t) == [c EXCEPT !.mtx = t, !.th[t].pc = "in_handler"]
\* the handler calls schedule_timeout, which calls tick
call_tick(c, t) == [c EXCEPT !.th[t].pc = "want_ticker", !.th[t].ticks = @ - 1]
\* std::lock_guard<std::mutex> g(timeout_ticker_mtx) in tick
lock_ticker(c, t) == [c EXCEPT !.timeout_ticker_mtx = t, !.th[t].pc = "in_tick"]
\* the callback of the cancelled wait is invoked from inside tick, under both mutexes
tick_body_inline_tock(c, t, accepted) ==
  IF accepted
    THEN [c EXCEPT !.armed = TRUE, !.th[t].pc = IF c.armed THEN "want_mtx" ELSE @]
    ELSE c
\* the body of tick: a stale TimeoutInfo returns; otherwise cancel() posts the callback of the
\* armed wait to the thread pool and async_wait arms the timer again
tick_body(c, t, accepted) ==
  IF accepted
    THEN [c EXCEPT !.armed = TRUE, !.ready = IF c.armed THEN @ + 1 ELSE @]
    ELSE c
\* tick returns: its lock_guard releases timeout_ticker_mtx
unlock_ticker(c, t) ==
  IF c.th[t].pc = "in_tick"
    THEN [c EXCEPT !.timeout_ticker_mtx = Free, !.th[t].pc = "in_handler"]
    ELSE c
\* the handler returns or throws: its lock_guard releases mtx
unlock_mtx(c, t) == [c EXCEPT !.mtx = Free, !.th[t] = IdleThread]
\* the timer expires: its callback is posted to the thread pool
expire(c) == [c EXCEPT !.armed = FALSE, !.ready = @ + 1]

InitLocks == cs = LockInit

BeginCall ==
  \E t \in Threads, job \in {"msg", "query"}, k \in 0 .. MaxSchedules :
    /\ cs.th[t].pc = "idle"
    /\ job = "query" => k = 0
    /\ cs' = begin_call(cs, t, job, k)
BeginTock ==
  \E t \in Threads, k \in 0 .. MaxSchedules :
    /\ cs.th[t].pc = "idle"
    /\ cs.ready > 0
    /\ cs' = begin_tock(cs, t, k)
TockCallsHandleTimeout ==
  \E t \in Threads : cs.th[t].pc = "tock" /\ cs' = tock_calls_handle_timeout(cs, t)
LockMtx ==
  \E t \in Threads : cs.th[t].pc = "want_mtx" /\ cs.mtx = Free /\ cs' = lock_mtx(cs, t)
CallTick ==
  \E t \in Threads :
    /\ cs.th[t].pc = "in_handler" /\ cs.th[t].ticks > 0
    /\ cs.ready < MaxPending
    /\ cs' = call_tick(cs, t)
LockTicker ==
  \E t \in Threads :
    cs.th[t].pc = "want_ticker" /\ cs.timeout_ticker_mtx = Free /\ cs' = lock_ticker(cs, t)
TickReturns ==
  \E t \in Threads, accepted \in BOOLEAN :
    cs.th[t].pc = "in_tick" /\ cs' = unlock_ticker(tick_body(cs, t, accepted), t)
UnlockMtx ==
  \E t \in Threads : cs.th[t].pc = "in_handler" /\ cs' = unlock_mtx(cs, t)
Expire ==
  cs.armed /\ cs.ready < MaxPending /\ cs' = expire(cs)

NextLocks ==
  \/ BeginCall
  \/ BeginTock
  \/ TockCallsHandleTimeout
  \/ LockMtx
  \/ CallTick
  \/ LockTicker
  \/ TickReturns
  \/ UnlockMtx
  \/ Expire

SpecLocks == InitLocks /\ [][NextLocks]_vars

(* ------------------------- unapplied_tx_queue -------------------------- *)
\* tx ids handed out by the test helper (make_random_tx: id = to_hex(tx_id))
NumTxIds == 3
TxIds == 1 .. NumTxIds
\* the senders of txs: make_random_tx(sender) takes the sender from its caller
Senders == {0, 1}
\* a tx of make_random_tx: nonce = tx_id, and "Add same tx id" re-submits an id under another
\* nonce; gas is random
Txs ==
  {t \in [id : TxIds, sender : Senders, nonce : 1 .. NumTxIds + 1, gas : {1, 2}] :
     t.nonce \in {t.id, t.id + 1}}
\* the bytes the queue charges for a tx; the txs of make_random_tx are all of one size, the
\* unit of the budgets ("Fully add/erase tx": sizeof(unapplied_tx) + sizeof(tx) for each tx)
bytes_size(tx) == 1
\* the sum of size_bytes over a set of entries
RECURSIVE SumSizes(_)
SumSizes(entries) ==
  IF entries = {} THEN 0
  ELSE LET e == CHOOSE x \in entries : TRUE IN bytes_size(e) + SumSizes(entries \ {e})
\* byte budgets a queue is constructed with
Budgets == {2, 3}

\* unapplied_tx_queue(max_bytes): no entry, the four indices empty
unapplied_tx_queue(max_bytes) ==
  [max_tx_queue_bytes_size |-> max_bytes, incoming_count |-> 0,
   by_tx_id |-> {}, by_sender |-> <<>>, by_nonce |-> <<>>, by_gas |-> <<>>]

\* an ordered non-unique index: e goes behind the entries whose key is at most its own
ordered_insert(index, e, key) ==
  LET n == Cardinality({i \in 1 .. Len(index) : index[i][key] <= e[key]})
  IN SubSeq(index, 1, n) \o <<e>> \o SubSeq(index, n + 1, Len(index))
\* an index without the entry of id
index_erase(index, id) == SelectSeq(index, LAMBDA e : e.id # id)

has(q, id) == \E e \in q.by_tx_id : e.id = id
get_tx(q, id) == IF has(q, id) THEN CHOOSE e \in q.by_tx_id : e.id = id ELSE None
\* begin(sender) .. end(sender): the txs of a sender in insertion order
get_by_sender(q, sender) == SelectSeq(q.by_sender, LAMBDA e : e.sender = sender)
size(q) == Cardinality(q.by_tx_id)
bytes(q) == q.incoming_count
empty(q) == q.by_tx_id = {}

\* add_tx without the test for the id
add_tx_any_id(q, tx) ==
  IF bytes_size(tx) + q.incoming_count > q.max_tx_queue_bytes_size
    THEN [q |-> q, ret |-> FALSE]
    ELSE [q |-> [q EXCEPT !.incoming_count = @ + bytes_size(tx),
                          !.by_tx_id = @ \cup {tx},
                          !.by_sender = ordered_insert(@, tx, "sender"),
                          !.by_nonce = ordered_insert(@, tx, "nonce"),
                          !.by_gas = ordered_insert(@, tx, "gas")],
          ret |-> TRUE]
\* add_tx without the test for the byte budget
add_tx_any_size(q, tx) ==
  IF has(q, tx.id)
    THEN [q |-> q, ret |-> FALSE]
    ELSE [q |-> [q EXCEPT !.incoming_count = @ + bytes_size(tx),
                          !.by_tx_id = @ \cup {tx},
                          !.by_sender = ordered_insert(@, tx, "sender"),
                          !.by_nonce = ordered_insert(@, tx, "nonce"),
                          !.by_gas = ordered_insert(@, tx, "gas")],
          ret |-> TRUE]
\* add_tx that appends to the gas index instead of inserting in order
add_tx_gas_appended(q, tx) ==
  IF has(q, tx.id) \/ bytes_size(tx) + q.incoming_count > q.max_tx_queue_bytes_size
    THEN [q |-> q, ret |-> FALSE]
    ELSE [q |-> [q EXCEPT !.incoming_count = @ + bytes_size(tx),
                          !.by_tx_id = @ \cup {tx},
                          !.by_sender = ordered_insert(@, tx, "sender"),
                          !.by_nonce = ordered_insert(@, tx, "nonce"),
                          !.by_gas = Append(@, tx)],
          ret |-> TRUE]
\* add_tx(tx): 1. reject an id that is present; 2. reject a tx that takes the bytes over the
\* budget; 3. insert, updating the four indices together
add_tx(q, tx) ==
  IF has(q, tx.id)
    THEN [q |-> q, ret |-> FALSE]
  ELSE IF bytes_size(tx) + q.incoming_count > q.max_tx_queue_bytes_size
    THEN [q |-> q, ret |-> FALSE]
    ELSE [q |-> [q EXCEPT !.incoming_count = @ + bytes_size(tx),
                          !.by_tx_id = @ \cup {tx},
                          !.by_sender = ordered_insert(@, tx, "sender"),
                          !.by_nonce = ordered_insert(@, tx, "nonce"),
                          !.by_gas = ordered_insert(@, tx, "gas")],
          ret |-> TRUE]
\* erase(id): false for an absent id; otherwise the entry leaves the four indices
erase(q, id) ==
  IF ~has(q, id)
    THEN [q |-> q, ret |-> FALSE]
    ELSE [q |-> [q EXCEPT !.incoming_count = @ - bytes_size(get_tx(q, id)),
                          !.by_tx_id = {e \in @ : e.id # id},
                          !.by_sender = index_erase(@, id),
                          !.by_nonce = index_erase(@, id),
                          !.by_gas = index_erase(@, id)],
          ret |-> TRUE]
\* clear(): every entry leaves, the budget stays
clear(q) == [q |-> unapplied_tx_queue(q.max_tx_queue_bytes_size), ret |-> TRUE]

\* cs holds the queue, the last call made on it and what the call returned
InitQueue ==
  cs \in {[q |-> unapplied_tx_queue(b), call |-> <<"unapplied_tx_queue", b>>, ret |-> TRUE] :
            b \in Budgets}

CallAddTx ==
  \E tx \in Txs :
    cs' = [q |-> add_tx(cs.q, tx).q, call |-> <<"add_tx", tx>>, ret |-> add_tx(cs.q, tx).ret]
CallErase ==
  \E id \in TxIds :
    cs' = [q |-> erase(cs.q, id).q, call |-> <<"erase", id>>, ret |-> erase(cs.q, id).ret]
CallClear ==
  cs' = [q |-> clear(cs.q).q, call |-> <<"clear">>, ret |-> clear(cs.q).ret]

NextQueue ==
  \/ CallAddTx
  \/ CallErase
  \/ CallClear

SpecQueue == InitQueue /\ [][NextQueue]_vars

(* ------------------------------ LRU_cache ------------------------------ *)
\* capacities a cache is constructed with
Capacities == {1, 2, 3}
\* the values put under a key: the txs of that id (LRU_cache<tx_id_type, tx_ptr>)
ValuesOf(k) == {t \in Txs : t.id = k /\ t.gas = 1 /\ t.sender = 0}

\* LRU_cache(capacity): no item; items run from the least to the most recently used
LRU_cache(capacity) == [capacity |-> capacity, items |-> <<>>]
LRU_keys(c) == {c.items[i].key : i \in 1 .. Len(c.items)}
LRU_has(c, k) == k \in LRU_keys(c)
LRU_size(c) == Len(c.items)
\* the items of c without the one of key k
Without(c, k) == SelectSeq(c.items, LAMBDA it : it.key # k)

\* put that overwrites the value of a present key where it is
put_in_place(c, k, v) ==
  IF LRU_has(c, k)
    THEN [c EXCEPT !.items = [i \in 1 .. Len(@) |-> IF @[i].key = k THEN [key |-> k, value |-> v] ELSE @[i]]]
  ELSE IF Len(c.items) + 1 > c.capacity
    THEN [c EXCEPT !.items = Tail(Append(@, [key |-> k, value |-> v]))]
    ELSE [c EXCEPT !.items = Append(@, [key |-> k, value |-> v])]
\* put(k, v): a present key is updated and becomes the most recent; a new key is inserted
\* and, if the cache is then over capacity, the least recent item is evicted
put(c, k, v) ==
  IF LRU_has(c, k)
    THEN [c EXCEPT !.items = Append(Without(c, k), [key |-> k, value |-> v])]
  ELSE IF Len(c.items) + 1 > c.capacity
    THEN [c EXCEPT !.items = Tail(Append(@, [key |-> k, value |-> v]))]
    ELSE [c EXCEPT !.items = Append(@, [key |-> k, value |-> v])]
\* get that returns the value of a hit and leaves the item where it is
get_in_place(c, k) ==
  IF LRU_has(c, k)
    THEN LET it == CHOOSE x \in {c.items[i] : i \in 1 .. Len(c.items)} : x.key = k
         IN [c |-> c, ret |-> it.value]
    ELSE [c |-> c, ret |-> None]
\* get(k): the value on a hit, which becomes the most recent; nothing on a miss
get(c, k) ==
  IF LRU_has(c, k)
    THEN LET it == CHOOSE x \in {c.items[i] : i \in 1 .. Len(c.items)} : x.key = k
         IN [c |-> [c EXCEPT !.items = Append(Without(c, k), it)], ret |-> it.value]
    ELSE [c |-> c, ret |-> None]
\* del(k): false for an absent key
del(c, k) ==
  IF LRU_has(c, k)
    THEN [c |-> [c EXCEPT !.items = Without(c, k)], ret |-> TRUE]
    ELSE [c |-> c, ret |-> FALSE]

\* cs holds the cache, the last call made on it, what the call returned (a value or None of
\* get, None of put, the bool of has and del as [ok |-> bool]), the keys the call took out of
\* the cache and whether the call changed the order of the items
InitCache ==
  cs \in {[c |-> LRU_cache(n), call |-> <<"LRU_cache", n>>, ret |-> None, evicted |-> {},
           reordered |-> FALSE] : n \in Capacities}
CacheCall(c, call, r) ==
  [c |-> r.c, call |-> call, ret |-> r.ret, evicted |-> LRU_keys(c) \ LRU_keys(r.c),
   reordered |-> [i \in 1 .. Len(r.c.items) |-> r.c.items[i].key] # [i \in 1 .. Len(c.items) |-> c.items[i].key]]

CallPut ==
  \E k \in TxIds : \E v \in ValuesOf(k) :
    cs' = CacheCall(cs.c, <<"put", k, v>>, [c |-> put(cs.c, k, v), ret |-> None])
CallGet ==
  \E k \in TxIds : cs' = CacheCall(cs.c, <<"get", k>>, get(cs.c, k))
CallHas ==
  \E k \in TxIds : cs' = CacheCall(cs.c, <<"has", k>>, [c |-> cs.c, ret |-> [ok |-> LRU_has(cs.c, k)]])
CallDel ==
  \E k \in TxIds : cs' = CacheCall(cs.c, <<"del", k>>, [c |-> del(cs.c, k).c, ret |-> [ok |-> del(cs.c, k).ret]])

NextCache ==
  \/ CallPut
  \/ CallGet
  \/ CallHas
  \/ CallDel

SpecCache == InitCache /\ [][NextCache]_vars

(* -------------------------------- tx_pool ------------------------------ *)
\* check_tx calls made on a pool
MaxCalls == 3
\* the txs submitted to a pool: nonce = tx_id as in make_random_tx, of either sender
PoolTxs == {t \in Txs : t.nonce = t.id /\ t.gas = 1}
\* the txs a test makes with the helper, one for each id: all of the sender the test passes
\* (Push/Get tx passes "user"), or of the two senders in turn
Helpers ==
  {[id \in TxIds |-> [id |-> id, sender |-> s, nonce |-> id, gas |-> 1]] : s \in Senders}
    \cup {[id \in TxIds |-> [id |-> id, sender |-> id % 2, nonce |-> id, gas |-> 1]]}
\* the configurations of a pool: a cache of one item or of one item per id, a byte budget
\* for all txs but one or for all txs
PoolConfigs == [cache_size : {1, NumTxIds}, max_tx_bytes : {NumTxIds - 1, NumTxIds}]
\* a check_tx call past the cache lookup: it waits for the application ("app") or, with the
\* application's answer, for the pool mutex ("insert")
InFlightKinds ==
  {k \in [tx : PoolTxs, pc : {"app", "insert"}, accepted : BOOLEAN] : k.pc = "app" => ~k.accepted}
AtApp(tx) == [tx |-> tx, pc |-> "app", accepted |-> FALSE]
AtInsert(tx, ok) == [tx |-> tx, pc |-> "insert", accepted |-> ok]

\* tx_pool(config): an empty queue and an empty cache, no call in flight
tx_pool(config) ==
  [tx_queue |-> unapplied_tx_queue(config.max_tx_bytes),
   tx_cache |-> LRU_cache(config.cache_size),
   in_flight |-> [k \in InFlightKinds |-> 0]]

\* check_tx, step (a), under the pool mutex: a tx whose id is in the cache is rejected as a
\* duplicate; any other tx goes on to the application
check_tx(p, tx) ==
  IF LRU_has(p.tx_cache, tx.id)
    THEN [p |-> p, ret |-> FALSE]
    ELSE [p |-> [p EXCEPT !.in_flight[AtApp(tx)] = @ + 1], ret |-> TRUE]
\* check_tx, step (b), without the pool mutex: the application's check_tx answers ok
app_check_tx(p, tx, ok) ==
  [p EXCEPT !.in_flight[AtApp(tx)] = @ - 1, !.in_flight[AtInsert(tx, ok)] = @ + 1]
\* steps (c) and (d) that leave a tx the application refused out of the cache
check_tx_response_uncached(p, tx, ok) ==
  LET added == add_tx(p.tx_queue, tx)
      q == [p EXCEPT !.in_flight[AtInsert(tx, ok)] = @ - 1]
  IN IF ok
       THEN [p |-> [q EXCEPT !.tx_cache = put(@, tx.id, tx), !.tx_queue = added.q],
             ret |-> added.ret]
       ELSE [p |-> q, ret |-> FALSE]
\* check_tx, steps (c) and (d), under the pool mutex: the tx is put into the cache, and into
\* the queue if the application accepted it; the response is whether the queue took it
check_tx_response(p, tx, ok) ==
  LET added == add_tx(p.tx_queue, tx)
      q == [p EXCEPT !.in_flight[AtInsert(tx, ok)] = @ - 1, !.tx_cache = put(@, tx.id, tx)]
  IN IF ok
       THEN [p |-> [q EXCEPT !.tx_queue = added.q], ret |-> added.ret]
       ELSE [p |-> q, ret |-> FALSE]

\* cs holds the pool, the txs of the test, the last step taken on the pool and its result,
\* the number of check_tx calls made, the ids submitted, how often the queue took each id, and
\* the ids the application refused
InitPool ==
  cs \in {[p |-> tx_pool(config), helper |-> h, call |-> <<"tx_pool", config>>, ret |-> TRUE,
           calls |-> 0, submitted |-> {}, inserted |-> [id \in TxIds |-> 0], refused |-> {}] :
            config \in PoolConfigs, h \in Helpers}

\* a thread calls check_tx with one of the txs of the test: the lookup in the cache
CallCheckTx ==
  \E tx \in PoolTxs :
    /\ cs.calls < MaxCalls
    /\ tx = cs.helper[tx.id]
    /\ cs' = [cs EXCEPT !.p = check_tx(cs.p, tx).p, !.call = <<"check_tx", tx>>,
                        !.ret = check_tx(cs.p, tx).ret,
                        !.calls = @ + 1, !.submitted = @ \cup {tx.id}]
\* the application answers one of the calls in flight
AppCheckTx ==
  \E tx \in PoolTxs, ok \in BOOLEAN :
    /\ cs.p.in_flight[AtApp(tx)] > 0
    /\ cs' = [cs EXCEPT !.p = app_check_tx(cs.p, tx, ok), !.call = <<"app_check_tx", tx, ok>>,
                        !.ret = ok,
                        !.refused = IF ok THEN @ ELSE @ \cup {tx.id}]
\* a call in flight takes the pool mutex again and resolves its response
CheckTxResponse ==
  \E tx \in PoolTxs, ok \in BOOLEAN :
    /\ cs.p.in_flight[AtInsert(tx, ok)] > 0
    /\ LET r == check_tx_response(cs.p, tx, ok)
       IN cs' = [cs EXCEPT !.p = r.p, !.call = <<"check_tx_response", tx, ok>>, !.ret = r.ret,
                           !.inserted[tx.id] = IF r.ret THEN @ + 1 ELSE @]

NextPool ==
  \/ CallCheckTx
  \/ AppCheckTx
  \/ CheckTxResponse

SpecPool == InitPool /\ [][NextPool]_vars

(* ------------------------- reaping while adding ------------------------ *)
\* the threads that reap, and the number of txs each of them is to obtain
Reapers == {1, 2}
ReapTotal(r) == IF r = 1 THEN 2 ELSE 1

\* reap_max_txs that hands out every tx of the group, whatever the count asked for
reap_max_txs_unbounded(p, n) ==
  IF empty(p.tx_queue) THEN <<>>
  ELSE SelectSeq(p.tx_queue.by_nonce, LAMBDA e : e.sender = p.tx_queue.by_sender[1].sender)
\* reap_max_txs(n), under the pool mutex: up to n txs of the earliest sender group, in the
\* order of the by_nonce index; the txs stay in the queue
reap_max_txs(p, n) ==
  IF empty(p.tx_queue) THEN <<>>
  ELSE LET group == SelectSeq(p.tx_queue.by_nonce,
                              LAMBDA e : e.sender = p.tx_queue.by_sender[1].sender)
       IN SubSeq(group, 1, IF n < Len(group) THEN n ELSE Len(group))

\* cs holds what it holds for a pool, and the txs each reaper still needs and the result of
\* the last reap_max_txs; the cache of the pool has room for every id, as the default one has
InitReap ==
  cs \in {[p |-> tx_pool(config), helper |-> h, call |-> <<"tx_pool", config>>, ret |-> TRUE,
           calls |-> 0, submitted |-> {}, inserted |-> [id \in TxIds |-> 0], refused |-> {},
           need |-> [r \in Reapers |-> ReapTotal(r)], reaped |-> <<>>] :
            config \in {c \in PoolConfigs : c.cache_size = NumTxIds}, h \in Helpers}

\* the adding thread calls check_tx (sync = false) with the next tx of the test helper
AdderCheckTx ==
  \E tx \in PoolTxs :
    /\ cs.calls < MaxCalls
    /\ tx = cs.helper[cs.calls + 1]
    /\ cs' = [cs EXCEPT !.p = check_tx(cs.p, tx).p, !.call = <<"check_tx", tx>>,
                        !.ret = check_tx(cs.p, tx).ret,
                        !.calls = @ + 1, !.submitted = @ \cup {tx.id}]
\* reaper r calls reap_max_txs with the count it still needs and counts what it got
ReapBy(r) ==
  /\ cs.need[r] > 0
  /\ cs' = [cs EXCEPT !.call = <<"reap_max_txs", r, cs.need[r]>>, !.ret = TRUE,
                      !.reaped = reap_max_txs(cs.p, cs.need[r]),
                      !.need[r] = @ - Len(reap_max_txs(cs.p, cs.need[r]))]
Reap == \E r \in Reapers : ReapBy(r)

NextReap ==
  \/ AdderCheckTx
  \/ AppCheckTx
  \/ CheckTxResponse
  \/ Reap

\* a reaper keeps calling reap_max_txs until it has its total (the while loops of the test)
SpecReap == InitReap /\ [][NextReap]_vars /\ \A r \in Reapers : WF_vars(ReapBy(r))

(* ------------------------------- db_store ------------------------------ *)
\* blocks applied after genesis
MaxBlocks == 2
\* validator sets are stored in full every val_set_checkpoint_interval heights
val_set_checkpoint_interval == 100000
\* initial heights of a chain: the first height, and the height before a checkpoint
InitialHeights == {1, val_set_checkpoint_interval - 1}

\* a validator set: its members and the proposer the priorities select
ValSet(members, proposer) == [members |-> members, proposer |-> proposer]
\* validator_set::increment_proposer_priority(times)
vs_increment_proposer_priority(v, times) == [v EXCEPT !.proposer = (@ + times) % 2]
\* the set after a validator update, and the consensus parameters after a parameter update
OtherValSet(v) == ValSet(IF v.members = "V0" THEN "V1" ELSE "V0", 0)
OtherParams(p) == [max_bytes |-> IF p.max_bytes = 1 THEN 2 ELSE 1]

\* a default-constructed state
ZeroState ==
  [version |-> "", chain_id |-> "", initial_height |-> 0, last_block_height |-> 0,
   last_block_id |-> NilBlockId, last_block_time |-> 0,
   next_validators |-> ValSet("", 0), validators |-> ValSet("", 0),
   last_validators |-> ValSet("", 0), last_height_validators_changed |-> 0,
   consensus_params |-> [max_bytes |-> 0], last_height_consensus_params_changed |-> 0,
   last_result_hash |-> "", app_hash |-> ""]
\* the state made from the genesis document of a chain that starts at height h0
GenesisState(h0) ==
  [ZeroState EXCEPT !.version = "v1", !.chain_id = "chain", !.initial_height = h0,
                    !.next_validators = vs_increment_proposer_priority(ValSet("V0", 0), 1),
                    !.validators = ValSet("V0", 0),
                    !.last_height_validators_changed = h0,
                    !.consensus_params = [max_bytes |-> 1],
                    !.last_height_consensus_params_changed = h0]
\* the height of the block that follows st
NextHeightOf(st) == IF st.last_block_height = 0 THEN st.initial_height ELSE st.last_block_height + 1
\* the state after the block of the next height, which may update the validators (in effect
\* two heights later) and the consensus parameters (in effect at the next height)
StateAfterBlock(st, vals_changed, params_changed) ==
  LET h == NextHeightOf(st)
  IN [st EXCEPT !.last_block_height = h,
                !.last_block_id = BlockIdOf("A"),
                !.last_block_time = h,
                !.last_validators = st.validators,
                !.validators = st.next_validators,
                !.next_validators = IF vals_changed THEN OtherValSet(@)
                                    ELSE vs_increment_proposer_priority(@, 1),
                !.last_height_validators_changed = IF vals_changed THEN h + 2 ELSE @,
                !.consensus_params = IF params_changed THEN OtherParams(@) ELSE @,
                !.last_height_consensus_params_changed = IF params_changed THEN h + 1 ELSE @,
                !.last_result_hash = "r", !.app_hash = "a"]

\* the keys a store keeps the state under: encode(prefix::state), and the empty key a store
\* made by the move constructor has
state_key_ == "8"
StateKeys == {state_key_, ""}
\* db_store(): an empty database; each state key holds a buffer, each other key prefix is a
\* map from heights to records.  The db class is declared elsewhere: end_inclusive says
\* whether the range of its reverse iterator includes the upper key it is given
db_store(end_inclusive) ==
  [state_key |-> state_key_, end_inclusive |-> end_inclusive,
   state |-> [k \in StateKeys |-> <<>>],
   validators |-> <<>>, consensus_params |-> <<>>, abci_response |-> <<>>]
\* db_store(db_store&& other): the database moves to the new store, state_key_ is not
\* initialized from the other one and stays empty
db_store_move(other) == [other EXCEPT !.state_key = ""]
\* batch->set(encode_key<prefix>(height), buf) on one of the maps
db_set(map, height, rec) ==
  [h \in DOMAIN map \cup {height} |-> IF h = height THEN rec ELSE map[h]]

\* encode_state: the fields written to the stream, in order (last_block_id is not written)
encode_state(st) ==
  <<st.version, st.chain_id, st.initial_height, st.last_block_height,
    st.last_block_time, st.next_validators, st.validators, st.last_validators,
    st.last_height_validators_changed, st.consensus_params,
    st.last_height_consensus_params_changed, st.last_result_hash, st.app_hash>>
\* decode_state: the fields read from the stream into st, in order; the others keep the value
\* st had
decode_state(buf, st) ==
  [st EXCEPT !.version = buf[1], !.chain_id = buf[2], !.initial_height = buf[3],
             !.last_block_height = buf[4], !.last_block_time = buf[5],
             !.next_validators = buf[6], !.validators = buf[7], !.last_validators = buf[8],
             !.last_height_validators_changed = buf[9], !.consensus_params = buf[10],
             !.last_height_consensus_params_changed = buf[11],
             !.last_result_hash = buf[12], !.app_hash = buf[13]]

\* save_validators_info: the set itself is stored at the height it changed and at checkpoints
save_validators_info(db, height, last_height_changed, v_set) ==
  IF last_height_changed > height
    THEN [db |-> db, ret |-> FALSE]
    ELSE [db |-> [db EXCEPT !.validators =
                    db_set(@, height,
                           [last_height_changed |-> last_height_changed,
                            v_set |-> IF height = last_height_changed
                                         \/ height % val_set_checkpoint_interval = 0
                                        THEN v_set ELSE None])],
          ret |-> TRUE]
\* save_consensus_params_info: the parameters are stored at the height they changed
save_consensus_params_info(db, next_height, change_height, cs_params) ==
  [db EXCEPT !.consensus_params =
     db_set(@, next_height,
            [last_height_changed |-> change_height,
             cs_param |-> IF change_height = next_height THEN cs_params ELSE None])]

\* save_internal: the writes go to a batch, which reaches the database only with write_sync
save_internal(db, st) ==
  LET first == st.last_block_height + 1 = 1
      next_height == IF first THEN st.initial_height ELSE st.last_block_height + 1
      s1 == IF first THEN save_validators_info(db, next_height, next_height, st.validators)
            ELSE [db |-> db, ret |-> TRUE]
      s2 == save_validators_info(s1.db, next_height + 1, st.last_height_validators_changed,
                                 st.next_validators)
      s3 == save_consensus_params_info(s2.db, next_height,
                                       st.last_height_consensus_params_changed,
                                       st.consensus_params)
  IN IF ~s1.ret \/ ~s2.ret
       THEN [db |-> db, ret |-> FALSE]
       ELSE [db |-> [s3 EXCEPT !.state[db.state_key] = encode_state(st)], ret |-> TRUE]
\* bootstrap_internal: the validators of st are stored for the next height and the one after
\* it, the state under the state key
bootstrap_internal(db, st) ==
  LET first == st.last_block_height + 1 = 1
      height == IF first THEN st.initial_height ELSE st.last_block_height + 1
      s1 == IF ~first /\ st.last_validators.members # ""
              THEN save_validators_info(db, height, height, st.validators)
              ELSE [db |-> db, ret |-> TRUE]
      s2 == save_validators_info(s1.db, height + 1, height + 1, st.validators)
      s3 == save_consensus_params_info(s2.db, height,
                                       st.last_height_consensus_params_changed,
                                       st.consensus_params)
  IN IF ~s1.ret \/ ~s2.ret
       THEN [db |-> db, ret |-> FALSE]
       ELSE [db |-> [s3 EXCEPT !.state[db.state_key] = encode_state(st)], ret |-> TRUE]
\* save_validator_sets(lower_height, upper_height, v_set): a record for each height of the
\* range, all with lower_height as the height of the last change
RECURSIVE save_validator_sets(_, _, _, _, _)
save_validator_sets(db, height, lower_height, upper_height, v_set) ==
  IF height > upper_height THEN [db |-> db, ret |-> TRUE]
  ELSE LET s == save_validators_info(db, height, lower_height, v_set)
       IN IF ~s.ret THEN [db |-> db, ret |-> FALSE]
          ELSE save_validator_sets(s.db, height + 1, lower_height, upper_height, v_set)
\* save_abci_responses_internal(height): the encoded (empty) list of tx results
save_abci_responses_internal(db, height) ==
  [db EXCEPT !.abci_response = db_set(@, height, "txs")]
\* load_internal(st): false when nothing is stored under the state key
load_internal(db, st) ==
  IF db.state[db.state_key] = <<>>
    THEN [st |-> st, ret |-> FALSE]
    ELSE [st |-> decode_state(db.state[db.state_key], st), ret |-> TRUE]

\* load_validators_info, load_consensus_params_info: the record of a height, if stored
load_info(map, height) == IF height \in DOMAIN map THEN map[height] ELSE None
last_stored_height_for(height, last_height_changed) ==
  LET checkpoint_height == height - (height % val_set_checkpoint_interval)
  IN IF checkpoint_height > last_height_changed THEN checkpoint_height ELSE last_height_changed

\* load_validators(height)
load_validators(db, height) ==
  LET v_info == load_info(db.validators, height)
  IN IF v_info = None THEN [ret |-> FALSE, value |-> None]
     ELSE IF v_info.v_set # None THEN [ret |-> TRUE, value |-> v_info.v_set]
     ELSE LET stored == load_info(db.validators,
                                  last_stored_height_for(height, v_info.last_height_changed))
          IN IF stored = None THEN [ret |-> FALSE, value |-> None]
             ELSE IF stored.v_set = None THEN [ret |-> FALSE, value |-> None]
             ELSE [ret |-> TRUE,
                   value |-> vs_increment_proposer_priority(stored.v_set,
                                                           height - stored.last_height_changed)]
\* load_consensus_params(height)
load_consensus_params(db, height) ==
  LET info == load_info(db.consensus_params, height)
  IN IF info = None THEN [ret |-> FALSE, value |-> None]
     ELSE IF info.cs_param # None THEN [ret |-> TRUE, value |-> info.cs_param]
     ELSE LET stored == load_info(db.consensus_params, info.last_height_changed)
          IN IF stored = None THEN [ret |-> FALSE, value |-> None]
             ELSE IF stored.cs_param = None THEN [ret |-> FALSE, value |-> None]
             ELSE [ret |-> TRUE, value |-> stored.cs_param]

\* the keys one call of reverse_batch_delete puts into its batch at most
batch_delete_limit == 1000
\* reverse_batch_delete(batch, start, end, new_end): the reverse iterator of the database
\* yields the keys for start and end from the last one down and each is deleted, until the
\* limit is met, where new_end is the key deleted last; after a full pass new_end is start.
\* map is the column of the store once the batch is written
reverse_batch_delete(db, map, start, end) ==
  LET keys == {k \in DOMAIN map : k >= start /\ (IF db.end_inclusive THEN k <= end ELSE k < end)}
      batch == IF Cardinality(keys) >= batch_delete_limit
                 THEN {k \in keys : Cardinality({j \in keys : j > k}) < batch_delete_limit}
                 ELSE keys
  IN [map |-> [h \in DOMAIN map \ batch |-> map[h]],
      new_end |-> IF Cardinality(keys) >= batch_delete_limit
                    THEN CHOOSE k \in batch : \A j \in batch : k <= j
                    ELSE start,
      ret |-> TRUE]
\* prune_range<key_prefix>(start_, end_): the iterator runs from encode_key(start_) to
\* encode_key(end_ - 1); its keys are deleted batch by batch, each call of
\* reverse_batch_delete moving end to its new_end, until end has come down to start
RECURSIVE prune_range(_, _, _, _)
prune_range(db, key_prefix, start_, end_) ==
  LET r == reverse_batch_delete(db, db[key_prefix], start_, end_ - 1)
      written == [db EXCEPT ![key_prefix] = r.map]
  IN IF start_ = r.new_end THEN written ELSE prune_range(written, key_prefix, start_, r.new_end + 1)

\* prune_consensus_param(retain_height)
prune_consensus_param(db, retain_height) ==
  LET info == load_info(db.consensus_params, retain_height)
  IN IF info = None THEN [db |-> db, ret |-> FALSE]
     ELSE IF info.cs_param # None
       THEN [db |-> prune_range(db, "consensus_params", 1, info.last_height_changed),
             ret |-> TRUE]
     ELSE LET stored == load_info(db.consensus_params, info.last_height_changed)
          IN IF stored = None THEN [db |-> db, ret |-> FALSE]
             ELSE IF stored.cs_param = None THEN [db |-> db, ret |-> FALSE]
             ELSE [db |-> prune_range(prune_range(db, "consensus_params",
                                                  stored.last_height_changed + 1,
                                                  retain_height),
                                      "consensus_params", 1, stored.last_height_changed),
                   ret |-> TRUE]
\* prune_validator_sets(retain_height)
prune_validator_sets(db, retain_height) ==
  LET info == load_info(db.validators, retain_height)
  IN IF info = None THEN [db |-> db, ret |-> FALSE]
     ELSE LET last_recorded_height ==
                last_stored_height_for(retain_height, info.last_height_changed)
              stored == load_info(db.validators, last_recorded_height)
          IN IF info.v_set # None
               THEN [db |-> prune_range(db, "validators", 1, last_recorded_height),
                     ret |-> TRUE]
             ELSE IF stored = None THEN [db |-> db, ret |-> FALSE]
             ELSE IF stored.v_set = None THEN [db |-> db, ret |-> FALSE]
             ELSE [db |-> prune_range(IF last_recorded_height < retain_height
                                        THEN prune_range(db, "validators",
                                                         last_recorded_height + 1,
                                                         retain_height)
                                        ELSE db,
                                      "validators", 1, last_recorded_height),
                   ret |-> TRUE]
\* prune_abci_response(height)
prune_abci_response(db, height) == prune_range(db, "abci_response", 1, height)
\* prune_states(retain_height): what an earlier step deleted stays deleted when a later one
\* fails
prune_states(db, retain_height) ==
  IF retain_height <= 0 THEN [db |-> db, ret |-> FALSE]
  ELSE LET p1 == prune_consensus_param(db, retain_height)
           p2 == prune_validator_sets(p1.db, retain_height)
       IN IF ~p1.ret THEN [db |-> p1.db, ret |-> FALSE]
          ELSE IF ~p2.ret THEN [db |-> p2.db, ret |-> FALSE]
          ELSE [db |-> prune_abci_response(p2.db, retain_height), ret |-> TRUE]

\* the heights of the chain: those of its blocks and the two that follow
ChainHeights(st) == st.initial_height .. st.initial_height + MaxBlocks + 1
\* the heights the environment asks the store about
CallHeights(st) == {0} \cup ChainHeights(st)
\* blocks applied to reach st
BlocksOf(st) == IF st.last_block_height = 0 THEN 0 ELSE st.last_block_height - st.initial_height + 1
\* the states up to n blocks after st
RECURSIVE StatesAfter(_, _)
StatesAfter(st, n) ==
  IF n = 0 THEN {st}
  ELSE {st} \cup UNION {StatesAfter(StateAfterBlock(st, v, p), n - 1) : v, p \in BOOLEAN}
\* the states a node is bootstrapped with: up to MaxBlocks blocks after st, the last of them
\* a block that changes neither the validators nor the parameters
BootstrapStates(st) ==
  StatesAfter(st, MaxBlocks - 1)
    \cup {StateAfterBlock(s, FALSE, FALSE) : s \in StatesAfter(st, MaxBlocks - 1)}
\* the heights the node loads records of: that of the next block and the one after it, and
\* 0, which has none
LoadHeights(st) == {0, NextHeightOf(st), NextHeightOf(st) + 1}
\* no state was saved in the database
NoStateSaved(db) == \A k \in StateKeys : db.state[k] = <<>>
\* save_validator_sets calls made on a store
MaxBackfills == 1

\* cs holds the database, the state the node last saved, the number of save_validator_sets
\* calls made, the last call made on the store and what it returned
InitDb ==
  cs \in {[db |-> db_store(e), st |-> GenesisState(h0), backfills |-> 0,
           call |-> <<"db_store">>, ret |-> [ok |-> TRUE, value |-> None]] :
            h0 \in InitialHeights, e \in BOOLEAN}

\* the store is handed on to a store made by the move constructor, before the node applies
\* blocks
CallMove ==
  /\ cs.db.state_key # ""
  /\ cs.st.last_block_height = 0
  /\ cs' = [cs EXCEPT !.db = db_store_move(cs.db), !.call = <<"db_store&&">>,
                      !.ret = [ok |-> TRUE, value |-> None]]
\* the node saves the genesis state
CallSaveGenesis ==
  /\ NoStateSaved(cs.db)
  /\ cs' = [cs EXCEPT !.db = save_internal(cs.db, cs.st).db, !.call = <<"save", cs.st>>,
                      !.ret = [ok |-> save_internal(cs.db, cs.st).ret, value |-> None]]
\* the node starts from a state obtained elsewhere, not from the initial height
CallBootstrap ==
  \E st \in BootstrapStates(cs.st) :
    /\ NoStateSaved(cs.db)
    /\ cs' = [cs EXCEPT !.db = bootstrap_internal(cs.db, st).db, !.st = st,
                        !.call = <<"bootstrap", st>>,
                        !.ret = [ok |-> bootstrap_internal(cs.db, st).ret, value |-> None]]
\* the node applies a block and saves the state after it
CallSave ==
  \E vals_changed, params_changed \in BOOLEAN :
    LET st == StateAfterBlock(cs.st, vals_changed, params_changed)
    IN /\ ~NoStateSaved(cs.db)
       /\ BlocksOf(cs.st) < MaxBlocks
       /\ cs' = [cs EXCEPT !.db = save_internal(cs.db, st).db, !.st = st,
                           !.call = <<"save", st>>,
                           !.ret = [ok |-> save_internal(cs.db, st).ret, value |-> None]]
\* the validator set of the heights from one of the first two of the chain to the last is
\* stored
CallSaveValidatorSets ==
  \E lower_height \in {cs.st.initial_height, cs.st.initial_height + 1} :
    LET upper_height == cs.st.initial_height + MaxBlocks + 1
        v_set == ValSet("V1", 0)
        r == save_validator_sets(cs.db, lower_height, lower_height, upper_height, v_set)
    IN /\ cs.backfills < MaxBackfills
       /\ cs' = [cs EXCEPT !.db = r.db, !.backfills = @ + 1,
                           !.call = <<"save_validator_sets", lower_height, upper_height, v_set>>,
                           !.ret = [ok |-> r.ret, value |-> None]]
\* save_abci_responses(height) for the block just applied
CallSaveAbciResponses ==
  /\ cs.st.last_block_height > 0
  /\ cs' = [cs EXCEPT !.db = save_abci_responses_internal(@, cs.st.last_block_height),
                      !.call = <<"save_abci_responses", cs.st.last_block_height>>,
                      !.ret = [ok |-> TRUE, value |-> None]]
\* load(st) into a default-constructed state
CallLoad ==
  cs' = [cs EXCEPT !.call = <<"load">>,
                   !.ret = [ok |-> load_internal(cs.db, ZeroState).ret,
                            value |-> load_internal(cs.db, ZeroState).st]]
CallLoadValidators ==
  \E k \in LoadHeights(cs.st) :
    cs' = [cs EXCEPT !.call = <<"load_validators", k>>,
                     !.ret = [ok |-> load_validators(cs.db, k).ret,
                              value |-> load_validators(cs.db, k).value]]
CallLoadConsensusParams ==
  \E k \in LoadHeights(cs.st) :
    cs' = [cs EXCEPT !.call = <<"load_consensus_params", k>>,
                     !.ret = [ok |-> load_consensus_params(cs.db, k).ret,
                              value |-> load_consensus_params(cs.db, k).value]]
CallPruneStates ==
  \E h \in CallHeights(cs.st) :
    cs' = [cs EXCEPT !.db = prune_states(cs.db, h).db, !.call = <<"prune_states", h>>,
                     !.ret = [ok |-> prune_states(cs.db, h).ret, value |-> None]]

NextDb ==
  \/ CallMove
  \/ CallSaveGenesis
  \/ CallBootstrap
  \/ CallSave
  \/ CallSaveValidatorSets
  \/ CallSaveAbciResponses
  \/ CallLoad
  \/ CallLoadValidators
  \/ CallLoadConsensusParams
  \/ CallPruneStates

SpecDb == InitDb /\ [][NextDb]_vars

(* --------------------------- block sync: bp_peer ------------------------- *)

\* requests one peer may have pending
MaxPeerPending == 3
\* timeout errors the pool is followed through
MaxErrors == 4
PeerIds == {"p1"}

\* the callers of on_timeout: the handler of the timer, and decr_pending
OnTimeoutCallers == {"timer", "decr"}
\* a call of incr_pending or decr_pending that has not started or has returned; at is the
\* access of num_pending the call has made last and v the value its load has read
NoCall == [at |-> "idle", v |-> 0]
\* new_bp_peer: a zeroed peer whose timer has one wait registered.  timeout is the state of
\* that wait: "waiting" while it can still be aborted, "queued" once it has completed without
\* an error code and its handler is to be run by the io_context, "none" after that; entered
\* holds the callers that are inside on_timeout and wait for the mutex of the pool; incr and
\* decr are the calls of incr_pending and decr_pending in progress, which take no lock;
\* requested counts the requests handed to the peer and not answered yet
new_bp_peer ==
  [did_timeout |-> FALSE, num_pending |-> 0, timeout |-> "waiting", entered |-> {},
   incr |-> NoCall, decr |-> NoCall, requested |-> 0]
\* on_timeout, with the mutex of the pool: the timeout error is sent to the pool and the peer
\* is marked
on_timeout(peer) == [peer |-> [peer EXCEPT !.did_timeout = TRUE], sent |-> 1]
\* timeout->cancel(): a wait that has not completed is aborted, its handler returns at the
\* error code; a handler that is queued already stays queued
cancel(peer) == [peer EXCEPT !.timeout = IF @ = "waiting" THEN "none" ELSE @]
\* reset_timeout: expires_from_now aborts the wait as cancel does and registers no new one
reset_timeout(peer) == cancel(peer)
\* incr_pending, one access of num_pending at a time: the read of the test (at zero the
\* timeout is reset), the load of num_pending++ and its store
incr_pending(peer) ==
  [peer |->
     CASE peer.incr.at = "idle" ->
            [(IF peer.num_pending = 0 THEN reset_timeout(peer) ELSE peer)
               EXCEPT !.incr = [at |-> "test", v |-> 0]]
       [] peer.incr.at = "test" ->
            [peer EXCEPT !.incr = [at |-> "load", v |-> peer.num_pending]]
       [] peer.incr.at = "load" ->
            [peer EXCEPT !.num_pending = peer.incr.v + 1, !.incr = NoCall],
   sent |-> 0]
\* decr_pending, one access of num_pending at a time and up to the mutex: the load of
\* num_pending--, its store and the read of the test; at zero the timer is cancelled and
\* on_timeout is called directly, otherwise the timeout is reset
decr_pending(peer) ==
  [peer |->
     CASE peer.decr.at = "idle" ->
            [peer EXCEPT !.decr = [at |-> "load", v |-> peer.num_pending]]
       [] peer.decr.at = "load" ->
            [peer EXCEPT !.num_pending = peer.decr.v - 1, !.decr = [at |-> "store", v |-> 0]]
       [] peer.decr.at = "store" ->
            IF peer.num_pending = 0
              THEN [cancel(peer) EXCEPT !.entered = @ \cup {"decr"}, !.decr = NoCall]
              ELSE [reset_timeout(peer) EXCEPT !.decr = NoCall],
   sent |-> 0]

\* cs holds the pool's peers, the number of timeout errors sent and the last step taken
InitPeers ==
  cs = [peers |-> [id \in PeerIds |-> new_bp_peer], sent |-> 0, call |-> <<"new_bp_peer">>]

PeerStep(id, call, r) ==
  /\ cs.sent + r.sent <= MaxErrors
  /\ r.peer.num_pending \in -1 .. MaxPeerPending
  /\ cs' = [cs EXCEPT !.peers[id] = r.peer, !.sent = @ + r.sent, !.call = call]

\* a block request is handed to the peer: the requesting thread enters incr_pending
CallIncrPending ==
  \E id \in PeerIds :
    /\ cs.peers[id].incr.at = "idle"
    /\ cs.peers[id].requested < MaxPeerPending
    /\ PeerStep(id, <<"incr_pending", id>>,
                incr_pending([cs.peers[id] EXCEPT !.requested = @ + 1]))
\* the requesting thread makes the next access of its incr_pending
IncrPendingStep ==
  \E id \in PeerIds :
    /\ cs.peers[id].incr.at # "idle"
    /\ PeerStep(id, <<"incr_pending", id, cs.peers[id].incr.at>>, incr_pending(cs.peers[id]))
\* a block requested from the peer arrives: the thread that delivers the blocks, which is not
\* inside an earlier decr_pending, enters decr_pending
CallDecrPending ==
  \E id \in PeerIds :
    /\ cs.peers[id].decr.at = "idle"
    /\ cs.peers[id].requested > 0
    /\ "decr" \notin cs.peers[id].entered
    /\ PeerStep(id, <<"decr_pending", id>>,
                decr_pending([cs.peers[id] EXCEPT !.requested = @ - 1]))
\* the delivering thread makes the next access of its decr_pending
DecrPendingStep ==
  \E id \in PeerIds :
    /\ cs.peers[id].decr.at # "idle"
    /\ PeerStep(id, <<"decr_pending", id, cs.peers[id].decr.at>>, decr_pending(cs.peers[id]))
\* the wait on the peer's timer completes without an error code
TimerExpires ==
  \E id \in PeerIds :
    /\ cs.peers[id].timeout = "waiting"
    /\ PeerStep(id, <<"expired", id>>,
                [peer |-> [cs.peers[id] EXCEPT !.timeout = "queued"], sent |-> 0])
\* the io_context runs the handler of the completed wait, which calls on_timeout
TimerHandler ==
  \E id \in PeerIds :
    /\ cs.peers[id].timeout = "queued"
    /\ PeerStep(id, <<"handler", id>>,
                [peer |-> [cs.peers[id] EXCEPT !.timeout = "none", !.entered = @ \cup {"timer"}],
                 sent |-> 0])
\* a caller inside on_timeout obtains the mutex of the pool
OnTimeout ==
  \E id \in PeerIds : \E caller \in OnTimeoutCallers :
    /\ caller \in cs.peers[id].entered
    /\ PeerStep(id, <<"on_timeout", id, caller>>,
                on_timeout([cs.peers[id] EXCEPT !.entered = @ \ {caller}]))

NextPeers ==
  \/ CallIncrPending
  \/ IncrPendingStep
  \/ CallDecrPending
  \/ DecrPendingStep
  \/ TimerExpires
  \/ TimerHandler
  \/ OnTimeout

SpecPeers == InitPeers /\ [][NextPeers]_vars

(* ----------------------------- properties ------------------------------ *)
\* (height, round, step) of a is lexicographically at most that of b
TripleLeq(a, b) ==
  \/ a.height < b.height
  \/ a.height = b.height /\ a.round < b.round
  \/ a.height = b.height /\ a.round = b.round /\ a.step <= b.step
\* c is the state a call of receive_routine left behind
Received(c) == c.log # <<>> /\ c.log[1][1] = "call" /\ c.log[1][2] = "receive_routine"

\* C1: a message handled by the receive path never takes (rs.height, rs.round, rs.step)
\* to a lexicographically smaller triple, whenever the process survives the handler.
C1_TripleNeverDecreases ==
  [][(cs.log = <<>> /\ Received(cs') /\ cs'.fatal # "crash") => TripleLeq(cs.rs, cs'.rs)]_vars

\* the entries of c's log that start with tag
Logged(c, tag) == {c.log[i] : i \in {j \in DOMAIN c.log : c.log[j][1] = tag}}
\* c is the state receive_routine left behind when it was handed a vote
ReceivedVote(c) == Received(c) /\ c.log[1][3].kind = "vote"
\* the node holds the block with this hash where enter_commit and finalize_commit look for it
HoldsBlock(rs, hash) ==
  /\ rs.locked_block # None
  /\ \/ get_hash(rs.locked_block) = hash
     \/ rs.proposal_block # None /\ get_hash(rs.proposal_block) = hash
\* the node is at the start of height h + 1 with the round-0 timeout armed
AtNextHeight(c, h) ==
  /\ c.fatal = "ok"
  /\ c.rs.height = h + 1 /\ c.rs.round = 0 /\ c.rs.step = NewHeight
  /\ c.rs.commit_round = -1
  /\ c.rs.locked_round = -1 /\ c.rs.locked_block = None /\ c.rs.locked_block_parts = None
  /\ c.rs.valid_round = -1 /\ c.rs.valid_block = None /\ c.rs.valid_block_parts = None
  /\ c.rs.proposal = None /\ c.rs.proposal_block = None /\ c.rs.proposal_block_parts = None
  /\ [ti |-> timeout_info(h + 1, 0, NewHeight), aborted |-> FALSE] \in c.timers

\* C2: when the precommit that completes a 2/3+ majority for a block the node holds takes it
\* through step Commit into finalize_commit at height h, the call completes without error and
\* leaves the node at (h + 1, 0, NewHeight), commit_round -1, locked/valid/proposal reset and
\* the NewHeight timeout scheduled.
C2_FinalizeEntersNextHeight ==
  [][(/\ cs.log = <<>>
      /\ ReceivedVote(cs')
      /\ HoldsBlock(cs.rs, cs'.log[1][3].vote.block_id.hash)
      /\ Logged(cs', "finalize_commit") # {})
       => AtNextHeight(cs', cs.rs.height)]_vars

\* C3: in every state left behind by a handler, locked_round <= round, and a locked block
\* implies locked_round >= 0.
C3_LockedRoundWithinRound ==
  cs.fatal # "crash" =>
    /\ cs.rs.locked_round <= cs.rs.round
    /\ cs.rs.locked_block # None => cs.rs.locked_round >= 0

\* C4: handle_timeout is never handed the TimeoutInfo of a timer that was cancelled by a
\* newer schedule.
C4_CancelledTimerNotDelivered ==
  \A e \in Logged(cs, "tock") : ~e[3]

\* ti comes lexicographically before old in (height, round, step)
Stale(ti, old) ==
  \/ ti.height < old.height
  \/ ti.height = old.height /\ ti.round < old.round
  \/ ti.height = old.height /\ ti.round = old.round /\ ti.step < old.step
\* c is the state a call of schedule_timeout left behind
Scheduled(c) == c.log # <<>> /\ c.log[1][1] = "call" /\ c.log[1][2] = "schedule_timeout"

\* C5: scheduling a TimeoutInfo that is lexicographically smaller than the one the ticker
\* accepted last changes nothing: old_ti stays, the armed timer is neither cancelled nor
\* re-armed, and no timer that could deliver the stale TimeoutInfo is added; the same holds
\* of tick for every old_ti the ticker can hold.
C5_StaleScheduleIsNoOp ==
  [][(cs.log = <<>> /\ Scheduled(cs')) =>
       LET ti == cs'.log[1][3] IN
         /\ Stale(ti, cs.old_ti) =>
               cs'.old_ti = cs.old_ti /\ cs'.timers = cs.timers /\ cs'.rs = cs.rs
         /\ \A old \in TimeoutInfos \cup {timeout_info(0, 0, 0)} :
               Stale(ti, old) => tick([cs EXCEPT !.old_ti = old], ti) = [cs EXCEPT !.old_ti = old]]_vars
\* a stale TimeoutInfo was scheduled while the timer of a newer one was armed
C5_Witness ==
  /\ Scheduled(cs)
  /\ Stale(cs.log[1][3], cs.old_ti)
  /\ [ti |-> cs.old_ti, aborted |-> FALSE] \in cs.timers

\* c is the state receive_routine left behind when it was handed a proposal
ReceivedProposal(c) == Received(c) /\ c.log[1][3].kind = "proposal"
\* the proposal is for the node's height and round and its pol_round is -1 or in [0, round)
ProposalFits(rs, p) ==
  /\ p.height = rs.height /\ p.round = rs.round
  /\ p.pol_round = -1 \/ (0 <= p.pol_round /\ p.pol_round < p.round)

\* C6: a fitting proposal that arrives while rs.proposal is unset is stored and
\* proposal_block_parts is allocated from its header if absent; a proposal that arrives
\* while one is already set leaves the stored proposal unchanged.
C6_SetProposalStoresOnce ==
  [][(cs.log = <<>> /\ ReceivedProposal(cs')) =>
       LET p == cs'.log[1][3].proposal IN
         /\ (cs.rs.proposal = None /\ ProposalFits(cs.rs, p)) =>
               /\ cs'.rs.proposal = p
               /\ cs'.rs.proposal_block_parts =
                    IF cs.rs.proposal_block_parts = None
                      THEN new_part_set_from_header(p.block_id.parts)
                      ELSE cs.rs.proposal_block_parts
         /\ cs.rs.proposal # None => cs'.rs.proposal = cs.rs.proposal]_vars

\* the message m is on the internal message queue of c
Published(c, m) == \E i \in DOMAIN c.mq : c.mq[i] = m
\* enter_precommit(c.rs.height, r) passed its guard during the call that left c behind
EnteredPrecommit(c, r) == <<"enter_precommit", c.rs.height, r>> \in Logged(c, "enter_precommit")
\* receive_routine was handed a prevote, and left c behind
ReceivedPrevote(c) == ReceivedVote(c) /\ c.log[1][3].vote.type = PrevoteType
\* the node's own precommit for bid in round r
OwnPrecommit(c, r, bid) == vote_message(vote(PrecommitType, c.rs.height, r, bid, c.priv.key))

\* C7: when a prevote brings the node into enter_precommit(h, r) in its own round r with a
\* 2/3+ prevote majority for a non-nil block id: if the block it is locked on hashes to the
\* id, it relocks (locked_round = r) and precommits the id; otherwise, if its proposal block
\* hashes to the id, it locks on the proposal block and its parts and precommits the id, also
\* when it holds no lock on entry.
C7_PrecommitLocksOnPolka ==
  [][(cs.log = <<>> /\ ReceivedPrevote(cs') /\ EnteredPrecommit(cs', cs.rs.round)) =>
       LET r == cs.rs.round
           bid == two_thirds_majority(prevotes(cs', r))
           locked == IF Logged(cs', "unlock") # {} THEN None ELSE cs.rs.locked_block
           relock == locked # None /\ get_hash(locked) = bid.hash
           lock == /\ ~relock
                   /\ cs.rs.proposal_block # None
                   /\ get_hash(cs.rs.proposal_block) = bid.hash
       IN (bid # None /\ bid.hash # NilHash) =>
            /\ relock => /\ cs'.fatal = "ok"
                         /\ cs'.rs.locked_round = r
                         /\ cs'.rs.locked_block = locked
                         /\ Published(cs', OwnPrecommit(cs, r, bid))
            /\ lock => /\ cs'.fatal = "ok"
                       /\ cs'.rs.locked_round = r
                       /\ cs'.rs.locked_block = cs.rs.proposal_block
                       /\ cs'.rs.locked_block_parts = cs.rs.proposal_block_parts
                       /\ Published(cs', OwnPrecommit(cs, r, bid))]_vars

\* C8: when a prevote brings the node into enter_precommit(h, r) with a 2/3+ prevote majority
\* for nil, the call completes without a fatal error, the node is unlocked, its nil precommit
\* is published and it is in step Precommit of round r.
C8_NilPolkaPrecommitsNil ==
  [][(/\ cs.log = <<>>
      /\ ReceivedPrevote(cs')
      /\ EnteredPrecommit(cs', cs.rs.round)
      /\ two_thirds_majority(prevotes(cs', cs.rs.round)) = NilBlockId)
       => /\ cs'.fatal = "ok"
          /\ cs'.rs.locked_round = -1
          /\ cs'.rs.locked_block = None
          /\ cs'.rs.locked_block_parts = None
          /\ Published(cs', OwnPrecommit(cs, cs.rs.round, NilBlockId))
          /\ cs'.rs.round = cs.rs.round
          /\ cs'.rs.step = Precommit]_vars

\* the lock fields of rs are cleared
Unlocked(rs) == rs.locked_round = -1 /\ rs.locked_block = None /\ rs.locked_block_parts = None
\* the lock fields of a and b are the same
SameLock(a, b) ==
  /\ a.locked_round = b.locked_round
  /\ a.locked_block = b.locked_block
  /\ a.locked_block_parts = b.locked_block_parts

\* C9: when add_vote admits a prevote for round vr that leaves prevotes(vr) with a 2/3+
\* majority while the node is locked on a block that does not hash to the majority id:
\* with locked_round < vr <= rs.round the node unlocks (it stays unlocked unless
\* enter_precommit then runs in the same call); with vr > rs.round or vr <= locked_round it
\* does not unlock in that step.
C9_PolkaUnlocks ==
  [][(/\ cs.log = <<>>
      /\ ReceivedPrevote(cs')
      /\ Logged(cs', "add_vote") # {}
      /\ cs.rs.locked_block # None) =>
       LET vr == cs'.log[1][3].vote.round
           bid == two_thirds_majority(prevotes(cs', vr))
       IN (bid # None /\ get_hash(cs.rs.locked_block) # bid.hash) =>
            /\ (cs.rs.locked_round < vr /\ vr <= cs.rs.round) =>
                  /\ <<"unlock", vr>> \in Logged(cs', "unlock")
                  /\ Logged(cs', "enter_precommit") = {} => Unlocked(cs'.rs)
            /\ (vr > cs.rs.round \/ vr <= cs.rs.locked_round) =>
                  /\ Logged(cs', "unlock") = {}
                  /\ Logged(cs', "enter_precommit") = {} => SameLock(cs'.rs, cs.rs)]_vars
\* a prevote completed a polka against the node's lock, and the node is unlocked
C9_Witness ==
  /\ ReceivedPrevote(cs)
  /\ Logged(cs, "unlock") # {}
  /\ Logged(cs, "enter_precommit") = {}
  /\ cs.fatal = "ok"
  /\ Unlocked(cs.rs)

\* receive_routine was handed a precommit, add_vote admitted it, and c was left behind
AdmittedPrecommit(c) ==
  /\ ReceivedVote(c)
  /\ c.log[1][3].vote.type = PrecommitType
  /\ Logged(c, "add_vote") # {}
\* position of entry e in the log of c, 0 when absent
Pos(c, e) == IF \E i \in DOMAIN c.log : c.log[i] = e THEN CHOOSE i \in DOMAIN c.log : c.log[i] = e ELSE 0
\* those of the entries a, b that the log of c holds appear in this order
InOrder(c, a, b) == (Pos(c, a) > 0 /\ Pos(c, b) > 0) => Pos(c, a) < Pos(c, b)

\* C10: when add_vote admits a precommit for round vr while the node is before step Commit
\* and prevotes(vr) has no 2/3+ majority for nil: with a 2/3+ precommit majority for a
\* non-nil id, enter_new_round, enter_precommit and enter_commit run in that order and the
\* node ends in step Commit with commit_round = vr or at the next height; with a 2/3+
\* majority for nil, or 2/3+ of any precommits for a round vr >= rs.round, the call
\* completes, enter_precommit_wait(h, vr) runs when vr >= rs.round, and the node is not in
\* step Commit.
C10_PrecommitTransitions ==
  [][(/\ cs.log = <<>>
      /\ AdmittedPrecommit(cs')
      /\ cs.rs.step # Commit
      /\ cs'.fatal # "crash") =>
       LET h == cs.rs.height
           vr == cs'.log[1][3].vote.round
           bid == two_thirds_majority(precommits(cs', vr))
           any == has_two_thirds_any(precommits(cs', vr))
       IN two_thirds_majority(prevotes(cs', vr)) # NilBlockId =>
            /\ (bid # None /\ bid.hash # NilHash) =>
                  /\ InOrder(cs', <<"enter_new_round", h, vr>>, <<"enter_precommit", h, vr>>)
                  /\ InOrder(cs', <<"enter_precommit", h, vr>>, <<"enter_commit", h, vr>>)
                  /\ InOrder(cs', <<"enter_new_round", h, vr>>, <<"enter_commit", h, vr>>)
                  /\ \/ cs'.rs.step = Commit /\ cs'.rs.commit_round = vr
                     \/ cs'.rs.height = h + 1
            /\ ((bid # None /\ bid.hash = NilHash) \/ (bid = None /\ any /\ vr >= cs.rs.round)) =>
                  /\ cs'.fatal = "ok"
                  /\ cs'.rs.step # Commit
                  /\ vr >= cs.rs.round =>
                       <<"enter_precommit_wait", h, vr>> \in Logged(cs', "enter_precommit_wait")]_vars

\* c is the state a direct call of the handler name left behind
Called(c, name) == c.log # <<>> /\ c.log[1][1] = "call" /\ c.log[1][2] = name
\* the vote set holds a 2/3+ majority for a block id that is not nil
HasBlockMajority(vs) == two_thirds_majority(vs) # None /\ two_thirds_majority(vs).hash # NilHash

\* C11: enter_commit(h, r) leaves the node in step Commit with commit_round = r only if
\* precommits(r) holds a 2/3+ majority for a non-nil block id; when its guard lets the call
\* in without such a majority, it raises a fatal error and leaves neither rs.step = Commit
\* nor commit_round = r behind.
C11_EnterCommitNeedsMajority ==
  [][(cs.log = <<>> /\ Called(cs', "enter_commit")) =>
       LET h == cs'.log[1][3]
           r == cs'.log[1][4]
           maj == HasBlockMajority(precommits(cs, r))
       IN /\ (cs'.rs.step = Commit /\ cs'.rs.commit_round = r) => maj
          /\ (h = cs.rs.height /\ cs.rs.step < Commit /\ ~maj) =>
                /\ cs'.fatal = "error"
                /\ cs'.rs.step # Commit
                /\ cs'.rs.commit_round # r]_vars

\* c is the state the handler of an expired (not cancelled) timer for step left behind
Fired(c, step) ==
  /\ c.log # <<>> /\ c.log[1][1] = "tock"
  /\ c.log[1][2].step = step /\ ~c.log[1][3]
\* the node's own vote of this type for nil in round r
OwnNilVote(c, type, r) == vote_message(vote(type, c.rs.height, r, NilBlockId, c.priv.key))
\* the node is in round r with no proposal and no lock
WithoutProposal(c, r) == c.rs.round = r /\ c.rs.proposal = None /\ c.rs.locked_block = None
\* an un-cancelled timer for (h, r, step) is armed
Armed(c, h, r, step) == [ti |-> timeout_info(h, r, step), aborted |-> FALSE] \in c.timers

\* C12: a validator in round r that has no proposal goes through the round without a fatal
\* error: when the Propose timeout fires it enters Prevote and publishes a nil prevote; when
\* prevotes(r) reaches a 2/3+ majority for nil it precommits nil; when precommits(r) reaches
\* a 2/3+ majority for nil it enters precommit-wait and schedules the PrecommitWait timeout;
\* when that timeout fires it enters round r + 1 of the same height.
C12_ProgressWithoutProposal ==
  [][LET h == cs.rs.height
         r == cs.rs.round
     IN /\ (Fired(cs', Propose) /\ cs'.log[1][2] = timeout_info(h, r, Propose)
              /\ WithoutProposal(cs, r) /\ cs.rs.step = Propose) =>
               /\ cs'.fatal = "ok"
               /\ cs'.rs.round = r /\ cs'.rs.step = Prevote
               /\ Published(cs', OwnNilVote(cs, PrevoteType, r))
        /\ (cs.log = <<>> /\ ReceivedPrevote(cs') /\ Logged(cs', "add_vote") # {}
              /\ cs'.log[1][3].vote.round = r
              /\ WithoutProposal(cs, r) /\ cs.rs.step = Prevote
              /\ two_thirds_majority(prevotes(cs', r)) = NilBlockId) =>
               /\ cs'.fatal = "ok"
               /\ cs'.rs.round = r /\ cs'.rs.step = Precommit
               /\ Published(cs', OwnNilVote(cs, PrecommitType, r))
        /\ (cs.log = <<>> /\ AdmittedPrecommit(cs')
              /\ cs'.log[1][3].vote.round = r
              /\ WithoutProposal(cs, r) /\ cs.rs.step = Precommit
              /\ two_thirds_majority(precommits(cs', r)) = NilBlockId) =>
               /\ cs'.fatal = "ok"
               /\ cs'.rs.triggered_timeout_precommit
               /\ Armed(cs', h, r, PrecommitWait)
        /\ (Fired(cs', PrecommitWait) /\ cs'.log[1][2] = timeout_info(h, r, PrecommitWait)
              /\ WithoutProposal(cs, r) /\ cs.rs.step = Precommit) =>
               /\ cs'.fatal = "ok"
               /\ cs'.rs.height = h /\ cs'.rs.round = r + 1]_vars

\* receive_routine was handed a block part, and left c behind
ReceivedPart(c) == Received(c) /\ c.log[1][3].kind = "part"
\* the part m is the one that completes the part set ps
Completes(ps, m) == ps # None /\ part_accepted(ps, m) /\ is_complete(add_part(ps, m))
\* the node's own prevote in round r, for some block id, is on the internal message queue
PublishedOwnPrevote(c, r) ==
  \E i \in DOMAIN c.mq :
    /\ c.mq[i].kind = "vote"
    /\ c.mq[i].vote.type = PrevoteType
    /\ c.mq[i].vote.round = r
    /\ c.mq[i].vote.validator_index = c.priv.key

\* C13: when the part that completes the part set of the proposal for the current
\* (height, round) arrives: in a step <= Propose the node enters Prevote for the current
\* round and publishes a prevote; in step Commit the part triggers try_finalize_commit.
C13_CompletingPartAdvances ==
  [][(/\ ReceivedPart(cs')
      /\ cs'.fatal # "crash"
      /\ cs.rs.proposal # None
      /\ cs.rs.proposal.height = cs.rs.height /\ cs.rs.proposal.round = cs.rs.round
      /\ cs'.log[1][3].part.height = cs.rs.height
      /\ Completes(cs.rs.proposal_block_parts, cs'.log[1][3].part)) =>
       /\ cs.rs.step <= Propose =>
             /\ <<"enter_prevote", cs.rs.height, cs.rs.round>> \in Logged(cs', "enter_prevote")
             /\ cs'.rs.round = cs.rs.round /\ cs'.rs.step >= Prevote
             /\ PublishedOwnPrevote(cs', cs.rs.round)
       /\ cs.rs.step = Commit => Logged(cs', "try_finalize_commit") # {}]_vars

\* enter_prevote_wait(h, r) or enter_precommit_wait(h, r) was called on a state whose
\* monotonicity guard lets it in
PassesWaitGuard(c, h, r, past) == h = c.rs.height /\ r >= c.rs.round /\ (r = c.rs.round => ~past)

\* C14: enter_prevote_wait(h, r), when its guard lets the call in, succeeds exactly when
\* prevotes(r) holds 2/3+ of any votes: it then schedules the PrevoteWait timeout for (h, r)
\* and sets rs.step = PrevoteWait for round r; it raises a fatal error only when prevotes(r)
\* holds no 2/3+ of any votes.
C14_PrevoteWaitNeedsAny ==
  [][(cs.log = <<>> /\ Called(cs', "enter_prevote_wait")) =>
       LET h == cs'.log[1][3]
           r == cs'.log[1][4]
           any == has_two_thirds_any(prevotes(cs, r))
       IN PassesWaitGuard(cs, h, r, PrevoteWait <= cs.rs.step) =>
            /\ any => /\ cs'.fatal = "ok"
                      /\ cs'.rs.round = r /\ cs'.rs.step = PrevoteWait
                      /\ Armed(cs', h, r, PrevoteWait)
            /\ ~any => cs'.fatal = "error"]_vars

\* C15: enter_precommit_wait(h, r), when its guard lets the call in, succeeds exactly when
\* precommits(r) holds 2/3+ of any votes: it then sets triggered_timeout_precommit and
\* schedules the PrecommitWait timeout for (h, r); it raises a fatal error only when
\* precommits(r) holds no 2/3+ of any votes.  A call for the node's round while
\* triggered_timeout_precommit is set schedules nothing.
C15_PrecommitWaitNeedsAny ==
  [][(cs.log = <<>> /\ Called(cs', "enter_precommit_wait")) =>
       LET h == cs'.log[1][3]
           r == cs'.log[1][4]
           any == has_two_thirds_any(precommits(cs, r))
       IN /\ PassesWaitGuard(cs, h, r, cs.rs.triggered_timeout_precommit) =>
               /\ any => /\ cs'.fatal = "ok"
                         /\ cs'.rs.triggered_timeout_precommit
                         /\ Armed(cs', h, r, PrecommitWait)
               /\ ~any => cs'.fatal = "error"
          /\ (h = cs.rs.height /\ r = cs.rs.round /\ cs.rs.triggered_timeout_precommit) =>
               cs'.timers = cs.timers /\ cs'.old_ti = cs.old_ti /\ cs'.fatal = "ok"]_vars

\* the step the handler name enters
StepOf(name) ==
  IF name = "enter_new_round" THEN NewRound
  ELSE IF name = "enter_propose" THEN Propose
  ELSE IF name = "enter_prevote" THEN Prevote
  ELSE IF name = "enter_prevote_wait" THEN PrevoteWait
  ELSE IF name = "enter_precommit" THEN Precommit
  ELSE IF name = "enter_precommit_wait" THEN PrecommitWait
  ELSE Commit
\* c is the state a direct call of one of the enter_ handlers left behind
CalledEnter(c) == c.log # <<>> /\ c.log[1][1] = "call" /\ c.log[1][2] \in EnterNames
\* the call changed no field of the round state, scheduled no timeout, published no message
\* and notified no observer
NoEffect(a, b) ==
  /\ b.rs = a.rs
  /\ b.timers = a.timers /\ b.old_ti = a.old_ti
  /\ b.mq = a.mq /\ b.n_steps = a.n_steps
  /\ b.fatal = a.fatal
\* the monotonicity rule: (h, r) is not the node's height, or is behind its round, or is its
\* round with the step already at or past the step to enter
BehindRule(rs, h, r, step) ==
  h # rs.height \/ r < rs.round \/ (r = rs.round /\ rs.step >= step)

\* C16 (as stated): each of the seven enter_ handlers, called with (h, r), is a no-op whenever
\* h # rs.height, or r < rs.round, or r = rs.round and rs.step is at or past the step entered.
C16_RejectedEnterIsNoOp ==
  [][(cs.log = <<>> /\ CalledEnter(cs')) =>
       LET name == cs'.log[1][2]
           h == cs'.log[1][3]
           r == cs'.log[1][4]
       IN BehindRule(cs.rs, h, r, StepOf(name)) => NoEffect(cs, cs')]_vars

\* the condition under which the handler name returns at once
Rejects(rs, name, h, r) ==
  IF name = "enter_commit" THEN h # rs.height \/ rs.step >= Commit
  ELSE IF name = "enter_precommit_wait"
    THEN h # rs.height \/ r < rs.round \/ (r = rs.round /\ rs.triggered_timeout_precommit)
  ELSE BehindRule(rs, h, r, StepOf(name))

\* C16 (amended): enter_new_round, enter_propose, enter_prevote, enter_prevote_wait and
\* enter_precommit are no-ops under the monotonicity rule; enter_precommit_wait is a no-op
\* when h # rs.height, or r < rs.round, or r = rs.round and triggered_timeout_precommit is
\* set; enter_commit is a no-op when h # rs.height or rs.step is Commit, whatever the round.
C16_GuardedEnterIsNoOp ==
  [][(cs.log = <<>> /\ CalledEnter(cs')) =>
       LET name == cs'.log[1][2]
           h == cs'.log[1][3]
           r == cs'.log[1][4]
       IN Rejects(cs.rs, name, h, r) => NoEffect(cs, cs')]_vars
\* a handler other than enter_commit was called for the node's height and a round behind
\* the node's round, and returned at once
C16_Witness ==
  /\ CalledEnter(cs)
  /\ cs.log[1][2] # "enter_commit"
  /\ cs.log[1][3] = cs.rs.height
  /\ cs.log[1][4] < cs.rs.round
  /\ Len(cs.log) = 1

\* c is the state a direct call of handle_timeout left behind
CalledTimeout(c) == Called(c, "handle_timeout")

\* C17: handle_timeout(ti) changes no RoundState field, enters no step, schedules no timeout
\* and publishes no message when (ti.height, ti.round, ti.step) is lexicographically
\* strictly behind (rs.height, rs.round, rs.step).
C17_StaleTimeoutIsNoOp ==
  [][(cs.log = <<>> /\ CalledTimeout(cs')) =>
       (Stale(cs'.log[1][3], cs.rs) => NoEffect(cs, cs') /\ Len(cs'.log) = 1)]_vars
\* handle_timeout was handed a TimeoutInfo of the node's height that is behind its round or
\* its step
C17_Witness ==
  /\ CalledTimeout(cs)
  /\ cs.log[1][3].height = cs.rs.height
  /\ Stale(cs.log[1][3], cs.rs)
  /\ Len(cs.log) = 1

\* the states the transition of the dispatch table for ti.step leaves behind
Dispatch(c, ti) ==
  IF ti.step = NewHeight THEN enter_new_round(c, ti.height, 0)
  ELSE IF ti.step = NewRound THEN enter_propose(c, ti.height, 0)
  ELSE IF ti.step = Propose THEN enter_prevote(c, ti.height, ti.round)
  ELSE IF ti.step = PrevoteWait THEN enter_precommit(c, ti.height, ti.round)
  ELSE IF ti.step = PrecommitWait
    THEN UNION {enter_new_round(s, ti.height, ti.round + 1) : s \in enter_precommit(c, ti.height, ti.round)}
  ELSE {[c EXCEPT !.fatal = "error"]}

\* C18 (as stated): for a TimeoutInfo that is not strictly behind (rs.height, rs.round,
\* rs.step), handle_timeout performs exactly the transition of the dispatch table, and raises
\* a fatal error for the steps Prevote, Precommit and Commit.
C18_NotBehindIsDispatched ==
  [][(cs.log = <<>> /\ CalledTimeout(cs')) =>
       LET ti == cs'.log[1][3] IN
         ~Stale(ti, cs.rs) => cs' \in Dispatch(Log(cs, cs'.log[1]), ti)]_vars

\* C18 (amended): for a TimeoutInfo of the node's height that is not behind its round and
\* step, handle_timeout performs exactly the transition of the dispatch table, and raises a
\* fatal error for the steps Prevote, Precommit and Commit; a TimeoutInfo of any other
\* height, later ones included, is ignored.
C18_CurrentHeightIsDispatched ==
  [][(cs.log = <<>> /\ CalledTimeout(cs')) =>
       LET ti == cs'.log[1][3] IN
         /\ (ti.height = cs.rs.height /\ ~Stale(ti, cs.rs)) => cs' \in Dispatch(Log(cs, cs'.log[1]), ti)
         /\ ti.height # cs.rs.height => NoEffect(cs, cs') /\ Len(cs'.log) = 1]_vars
\* a PrecommitWait timeout of the node's round was handled: the node precommitted and went
\* on to the next round
C18_Witness ==
  /\ CalledTimeout(cs)
  /\ cs.fatal = "ok"
  /\ cs.log[1][3].step = PrecommitWait
  /\ cs.log[1][3].height = cs.rs.height
  /\ cs.rs.round = cs.log[1][3].round + 1
  /\ <<"enter_precommit", cs.rs.height, cs.log[1][3].round>> \in Logged(cs, "enter_precommit")
  /\ <<"enter_new_round", cs.rs.height, cs.rs.round>> \in Logged(cs, "enter_new_round")

\* C19: when add_vote admits a prevote for a round vr > rs.round and prevotes(vr) then holds
\* more than 2/3 of the voting power, for any mix of block ids, the node skips ahead: after
\* the call rs.round = vr at the same height, the proposal fields are cleared and a Propose
\* timeout for (h, vr) is scheduled.
C19_RoundSkipOnPrevotes ==
  [][(/\ cs.log = <<>>
      /\ ReceivedPrevote(cs')
      /\ Logged(cs', "add_vote") # {}
      /\ cs'.log[1][3].vote.round > cs.rs.round
      /\ has_two_thirds_any(prevotes(cs', cs'.log[1][3].vote.round))) =>
       LET vr == cs'.log[1][3].vote.round IN
         /\ cs'.fatal = "ok"
         /\ cs'.rs.height = cs.rs.height
         /\ cs'.rs.round = vr
         /\ cs'.rs.proposal = None
         /\ cs'.rs.proposal_block = None
         /\ cs'.rs.proposal_block_parts = None
         /\ Armed(cs', cs.rs.height, vr, Propose)]_vars
\* a prevote for a later round completed 2/3+ of that round's prevotes and took the node
\* into that round with a Propose timeout armed
C19_Witness ==
  /\ ReceivedPrevote(cs)
  /\ Logged(cs, "add_vote") # {}
  /\ cs.rs.round = cs.log[1][3].vote.round
  /\ <<"enter_new_round", cs.rs.height, cs.rs.round>> \in Logged(cs, "enter_new_round")
  /\ has_two_thirds_any(prevotes(cs, cs.rs.round))
  /\ cs.rs.proposal = None
  /\ Armed(cs, cs.rs.height, cs.rs.round, Propose)

\* the slots of the height vote set: (round, type, validator index)
Slots == Rounds \X VoteTypes \X Validators
SlotOf(v) == <<v.round, v.type, v.validator_index>>
Stored(c, x) == c.rs.votes.sets[x[1]][x[2]][x[3]]
\* the vote messages the step from a to b put on the internal message queue
NewVotes(a, b, taken) ==
  {b.mq[i].vote : i \in {j \in DOMAIN b.mq : j > Len(a.mq) - taken /\ b.mq[j].kind = "vote"}}

\* C20: sign_add_vote never inserts the node's vote into rs.votes: a step transition made by
\* an enter_ handler or by handle_timeout leaves the vote sets as they were, also when it
\* signs and publishes a vote; the vote is counted only when its VoteMessage is taken from
\* the internal message queue and admitted by add_vote, and that call stores nothing but
\* the vote it was handed.
C20_OwnVoteOnlyPublished ==
  [][/\ (cs.log = <<>> /\ (CalledEnter(cs') \/ CalledTimeout(cs'))) =>
          /\ cs'.rs.votes.sets = cs.rs.votes.sets
          /\ \A v \in NewVotes(cs, cs', 0) : v.validator_index = cs.priv.key
     /\ (cs.mq # <<>> /\ Head(cs.mq).kind = "vote" /\ ReceivedVote(cs') /\ cs'.log[1][3] = Head(cs.mq)) =>
          LET v == Head(cs.mq).vote IN
            /\ \A x \in Slots \ {SlotOf(v)} : Stored(cs', x) = Stored(cs, x)
            /\ hvs_accepts(cs, v) => Stored(cs', SlotOf(v)) = v.block_id
            /\ \A w \in NewVotes(cs, cs', 1) : SlotOf(w) # SlotOf(v) => Stored(cs', SlotOf(w)) = Stored(cs, SlotOf(w))]_vars
\* the node's own vote was taken from the internal message queue and is now counted, and the
\* vote that this step signed in turn is on the queue, not in the vote set
C20_Witness ==
  /\ ReceivedVote(cs)
  /\ Logged(cs, "add_vote") # {}
  /\ cs.log[1][3].vote.validator_index = cs.priv.key
  /\ Stored(cs, SlotOf(cs.log[1][3].vote)) = cs.log[1][3].vote.block_id
  /\ \E i \in DOMAIN cs.mq : cs.mq[i].kind = "vote" /\ Stored(cs, SlotOf(cs.mq[i].vote)) = None

\* the messages the step from a to b appended to the internal message queue
NewMessages(a, b) == SubSeq(b.mq, Len(a.mq) + 1, Len(b.mq))
\* the node is the proposer and enter_propose(h, r) passes its guard, so decide_proposal runs
Proposes(c, h, r) ==
  /\ h = c.rs.height
  /\ r > c.rs.round \/ (r = c.rs.round /\ c.rs.step < Propose)
  /\ c.priv # None /\ is_proposal(c, c.priv.key)

\* C21: when decide_proposal proposes a block that is split into n parts (the valid block),
\* it publishes on the internal message queue exactly one ProposalMessage followed by n
\* BlockPartMessages, one for each part index 0 .. n-1 of that block.
C21_ProposalThenParts ==
  [][(/\ cs.log = <<>>
      /\ Called(cs', "enter_propose")
      /\ Proposes(cs, cs'.log[1][3], cs'.log[1][4])
      /\ cs.rs.valid_block # None) =>
       LET n == cs.rs.valid_block_parts.header.total
           new == NewMessages(cs, cs')
       IN /\ Len(new) >= n + 1
          /\ new[1].kind = "proposal"
          /\ new[1].proposal.block_id.hash = get_hash(cs.rs.valid_block)
          /\ \A i \in 1 .. n :
               /\ new[i + 1].kind = "part"
               /\ new[i + 1].part.index = i - 1
               /\ new[i + 1].part.root = get_hash(cs.rs.valid_block)]_vars

\* the part m would take the bytes of the part set of c over max_bytes
Overflows(c, m) ==
  /\ c.rs.proposal_block_parts # None
  /\ part_accepted(c.rs.proposal_block_parts, m)
  /\ add_part(c.rs.proposal_block_parts, m).byte_size > c.local_state.max_bytes

\* C22: add_proposal_block_part rejects a block part whose addition takes the accumulated
\* bytes of the proposal parts over max_bytes: the part is not retained in
\* rs.proposal_block_parts, the call reports it as not added, and no step transition follows.
C22_OverflowingPartRejected ==
  [][(/\ ReceivedPart(cs')
      /\ cs'.log[1][3].part.height = cs.rs.height
      /\ Overflows(cs, cs'.log[1][3].part)) =>
       /\ cs'.rs.proposal_block_parts = cs.rs.proposal_block_parts
       /\ Logged(cs', "add_proposal_block_part") = {<<"add_proposal_block_part", FALSE>>}
       /\ cs'.rs.step = cs.rs.step /\ cs'.rs.round = cs.rs.round
       /\ cs'.mq = cs.mq /\ cs'.timers = cs.timers]_vars

\* C23: in every state between two handler calls of a running node, rs.commit_round >= 0 if
\* and only if rs.step = Commit; in particular commit_round = -1 in every step before Commit.
C23_CommitRoundIffCommit ==
  cs.fatal = "ok" => (cs.rs.commit_round >= 0 <=> cs.rs.step = Commit)

\* the mutex thread t is blocked on, and the thread that owns it (Free when t is not blocked)
WaitsFor(c, t) ==
  IF c.th[t].pc = "want_mtx" /\ c.mtx # Free THEN c.mtx
  ELSE IF c.th[t].pc = "want_ticker" /\ c.timeout_ticker_mtx # Free THEN c.timeout_ticker_mtx
  ELSE Free
\* t is blocked for good: on a mutex it owns itself, or on one owned by a thread that is
\* blocked on a mutex t owns
Stuck(c, t) ==
  /\ WaitsFor(c, t) # Free
  /\ \/ WaitsFor(c, t) = t
     \/ WaitsFor(c, WaitsFor(c, t)) = t

\* C24: no execution deadlocks on the two mutexes: timeout_ticker_mtx is only acquired by a
\* thread that holds mtx (never mtx while holding timeout_ticker_mtx), and a timer callback
\* (tock -> handle_timeout) never runs or waits for mtx while its thread holds
\* timeout_ticker_mtx.
C24_LockOrder ==
  \A t \in Threads :
    /\ ~Stuck(cs, t)
    /\ cs.timeout_ticker_mtx = t => (cs.mtx = t /\ cs.th[t].pc = "in_tick")
    /\ cs.th[t].pc \in {"tock", "want_mtx"} => cs.timeout_ticker_mtx # t
\* one thread is inside tick under both mutexes while a timer callback on another thread
\* waits for mtx
C24_Witness ==
  \E t, u \in Threads :
    /\ t # u
    /\ cs.th[t].pc = "in_tick" /\ cs.mtx = t /\ cs.timeout_ticker_mtx = t
    /\ cs.th[u].job = "timer" /\ cs.th[u].pc = "want_mtx"

\* the call that led to the state c was name(...)
QueueCall(c, name) == c.call[1] = name

\* C27: add_tx returns false for a tx whose id is already in the queue, also when its nonce
\* differs from the stored one, and leaves size(), bytes() and the stored entry of that id
\* unchanged: the original tx is still what get_tx(id) and the iteration over its sender
\* return.
C27_DuplicateIdRejected ==
  [][(QueueCall(cs', "add_tx") /\ has(cs.q, cs'.call[2].id)) =>
       LET id == cs'.call[2].id
           stored == get_tx(cs.q, id)
       IN /\ cs'.ret = FALSE
          /\ size(cs'.q) = size(cs.q)
          /\ bytes(cs'.q) = bytes(cs.q)
          /\ get_tx(cs'.q, id) = stored
          /\ get_by_sender(cs'.q, stored.sender) = get_by_sender(cs.q, stored.sender)]_vars
\* an add_tx was refused for a tx whose id is stored under another nonce
C27_Witness ==
  /\ QueueCall(cs, "add_tx") /\ cs.ret = FALSE
  /\ has(cs.q, cs.call[2].id)
  /\ get_tx(cs.q, cs.call[2].id).nonce # cs.call[2].nonce

\* the tx does not fit: its size would take the bytes of q over the budget
OverBudget(q, tx) == bytes_size(tx) + bytes(q) > q.max_tx_queue_bytes_size

\* C28: after any sequence of add_tx, erase and clear the sum of size_bytes of the stored
\* entries (which bytes() reports) is at most the byte budget; an add_tx that would exceed the
\* budget returns false and changes neither size() nor bytes(); an add_tx of a tx that fits
\* (and whose id is not in the queue, the case of C27) returns true and stores the tx.
C28_ByteBudget ==
  /\ [](/\ SumSizes(cs.q.by_tx_id) <= cs.q.max_tx_queue_bytes_size
        /\ bytes(cs.q) = SumSizes(cs.q.by_tx_id))
  /\ [][QueueCall(cs', "add_tx") =>
          LET tx == cs'.call[2]
          IN /\ OverBudget(cs.q, tx) =>
                  /\ cs'.ret = FALSE
                  /\ size(cs'.q) = size(cs.q)
                  /\ bytes(cs'.q) = bytes(cs.q)
             /\ (~OverBudget(cs.q, tx) /\ ~has(cs.q, tx.id)) =>
                  /\ cs'.ret = TRUE
                  /\ size(cs'.q) = size(cs.q) + 1
                  /\ bytes(cs'.q) = bytes(cs.q) + bytes_size(tx)
                  /\ get_tx(cs'.q, tx.id) = tx]_vars
\* a queue filled to its budget by successful adds has refused a tx of a new id
C28_Witness ==
  /\ QueueCall(cs, "add_tx") /\ cs.ret = FALSE
  /\ ~has(cs.q, cs.call[2].id)
  /\ size(cs.q) >= 2
  /\ bytes(cs.q) = cs.q.max_tx_queue_bytes_size

\* the positions of an ordered index that hold an entry of id
PositionsOf(index, id) == {i \in 1 .. Len(index) : index[i].id = id}
\* rbegin .. rend: the index from its last entry to its first
Reversed(index) == [i \in 1 .. Len(index) |-> index[Len(index) + 1 - i]]
\* the four indices hold the same entries, one per id
IndicesAgree(q) ==
  /\ \A id \in TxIds : Cardinality({e \in q.by_tx_id : e.id = id}) <= 1
  /\ \A index \in {q.by_sender, q.by_nonce, q.by_gas} :
       /\ Len(index) = size(q)
       /\ \A e \in q.by_tx_id : PositionsOf(index, e.id) # {} /\ \A i \in PositionsOf(index, e.id) : index[i] = e
       /\ \A id \in TxIds : Cardinality(PositionsOf(index, id)) = IF has(q, id) THEN 1 ELSE 0

\* C29: after any sequence of add_tx, erase and clear, every id present has exactly one entry
\* in each of the by-id, by-sender, by-nonce and by-gas indices, each index enumerates exactly
\* size() entries, the by-gas index in non-decreasing gas order and its reverse in
\* non-increasing order; erase(id) of an absent id returns false and changes nothing.
C29_IndicesConsistent ==
  /\ [](/\ IndicesAgree(cs.q)
        /\ \A i \in 1 .. Len(cs.q.by_gas) - 1 :
             /\ cs.q.by_gas[i].gas <= cs.q.by_gas[i + 1].gas
             /\ Reversed(cs.q.by_gas)[i].gas >= Reversed(cs.q.by_gas)[i + 1].gas)
  /\ [][(QueueCall(cs', "erase") /\ ~has(cs.q, cs'.call[2])) =>
          (cs'.ret = FALSE /\ cs'.q = cs.q)]_vars
\* an erase of an absent id was refused on a queue that holds txs of two gas values, stored
\* against the order of their gas
C29_Witness ==
  /\ QueueCall(cs, "erase") /\ cs.ret = FALSE
  /\ ~has(cs.q, cs.call[2])
  /\ size(cs.q) >= 2
  /\ \E i, j \in 1 .. Len(cs.q.by_sender) :
       i < j /\ cs.q.by_sender[i].gas > cs.q.by_sender[j].gas

\* C30: the cache never holds more than capacity items; a put of a new key into a full cache
\* evicts exactly one item, the least recently used one; a put of a key that is present evicts
\* nothing, leaves size() unchanged and makes that key the most recently used.
C30_LruEviction ==
  /\ [](LRU_size(cs.c) <= cs.c.capacity)
  /\ [][QueueCall(cs', "put") =>
          LET k == cs'.call[2]
              n == LRU_size(cs.c)
          IN /\ (~LRU_has(cs.c, k) /\ n = cs.c.capacity) =>
                  /\ LRU_size(cs'.c) = n
                  /\ LRU_keys(cs.c) \ LRU_keys(cs'.c) = {cs.c.items[1].key}
                  /\ cs'.c.items = Tail(cs.c.items) \o <<[key |-> k, value |-> cs'.call[3]]>>
             /\ LRU_has(cs.c, k) =>
                  /\ LRU_size(cs'.c) = n
                  /\ LRU_keys(cs'.c) = LRU_keys(cs.c)
                  /\ cs'.c.items[n].key = k
                  /\ Without(cs'.c, k) = Without(cs.c, k)]_vars
\* a put of a new key into a full cache of two or more items evicted one of them, and the
\* items left are not in the order of their keys: an earlier get or put had promoted one
C30_Witness ==
  /\ QueueCall(cs, "put")
  /\ cs.c.capacity >= 2 /\ LRU_size(cs.c) = cs.c.capacity
  /\ Cardinality(cs.evicted) = 1
  /\ cs.c.items[1].key > cs.c.items[2].key

\* C26: check_tx rejects (result false) a tx whose id is in the admission cache, whether the
\* tx was admitted earlier or refused by the application earlier, without inserting it into
\* the queue; a tx that passed the lookup and that the application accepts is put into the
\* cache and (its size fitting the byte budget of the queue) into the queue; one that the
\* application refuses is put into the cache only.
C26_CheckTxAdmission ==
  [][/\ (QueueCall(cs', "check_tx") /\ LRU_has(cs.p.tx_cache, cs'.call[2].id)) =>
          (cs'.ret = FALSE /\ cs'.p = cs.p)
     /\ QueueCall(cs', "check_tx_response") =>
          LET tx == cs'.call[2]
              ok == cs'.call[3]
          IN /\ LRU_has(cs'.p.tx_cache, tx.id)
             /\ (ok /\ ~OverBudget(cs.p.tx_queue, tx)) =>
                  (has(cs'.p.tx_queue, tx.id) /\ get_tx(cs'.p.tx_queue, tx.id) = tx)
             /\ ~ok => (cs'.ret = FALSE /\ cs'.p.tx_queue = cs.p.tx_queue)]_vars
\* a check_tx was rejected at the lookup for a tx that is in the cache and not in the queue
\* (the application had refused it), while the queue holds another tx, admitted earlier
C26_Witness ==
  /\ QueueCall(cs, "check_tx") /\ cs.ret = FALSE
  /\ LRU_has(cs.p.tx_cache, cs.call[2].id)
  /\ ~has(cs.p.tx_queue, cs.call[2].id)
  /\ cs.call[2].id \in cs.refused
  /\ \E id \in LRU_keys(cs.p.tx_cache) : has(cs.p.tx_queue, id)

\* no check_tx call is in flight
Quiescent(c) == \A k \in InFlightKinds : c.p.in_flight[k] = 0
\* the txs submitted so far fit the byte budget of the queue together
AllFit(c) ==
  SumSizes({c.helper[id] : id \in c.submitted}) <= c.p.tx_queue.max_tx_queue_bytes_size

\* C25: under any interleaving of concurrent check_tx calls, each tx id is inserted into the
\* queue at most once; every call for an id the queue does not hold that the application
\* accepts (and that fits the byte budget) succeeds; and once all calls have completed, none
\* refused by the application and all fitting the budget, the size of the pool is the number
\* of distinct ids submitted.
C25_ConcurrentAdmission ==
  /\ [](/\ \A id \in TxIds : cs.inserted[id] <= 1
        /\ IndicesAgree(cs.p.tx_queue)
        /\ size(cs.p.tx_queue) = Cardinality({id \in TxIds : cs.inserted[id] = 1})
        /\ (Quiescent(cs) /\ cs.refused = {} /\ AllFit(cs)) =>
             size(cs.p.tx_queue) = Cardinality(cs.submitted))
  /\ [][(/\ QueueCall(cs', "check_tx_response")
         /\ cs'.call[3]
         /\ ~has(cs.p.tx_queue, cs'.call[2].id)
         /\ ~OverBudget(cs.p.tx_queue, cs'.call[2])) =>
          (cs'.ret = TRUE /\ cs'.inserted[cs'.call[2].id] = 1)]_vars
\* all calls have completed; the last one had passed the lookup in a cache that evicts nothing
\* and was accepted by the application, and found its id in the queue: a call that ran
\* concurrently had inserted it
C25_Witness ==
  /\ Quiescent(cs) /\ cs.calls = MaxCalls
  /\ QueueCall(cs, "check_tx_response") /\ cs.call[3] /\ cs.ret = FALSE
  /\ cs.p.tx_cache.capacity = NumTxIds
  /\ cs.refused = {} /\ AllFit(cs)
  /\ cs.inserted[cs.call[2].id] = 1
  /\ size(cs.p.tx_queue) = Cardinality(cs.submitted) /\ size(cs.p.tx_queue) >= 2

\* C31: a get(k) hit returns the value and makes k the most recently used item, the last of
\* the current items to be evicted; has(k) never changes the eviction order; get of an absent
\* key returns no value and changes nothing.  With a full cache, a get hit on the least
\* recent key followed by a put of a new key evicts the item that was second, not k.
C31_GetPromotes ==
  [][/\ QueueCall(cs', "get") =>
          LET k == cs'.call[2]
          IN IF LRU_has(cs.c, k)
               THEN /\ cs'.ret # None /\ cs'.ret.id = k
                    /\ cs'.c.items[Len(cs'.c.items)].key = k
                    /\ Without(cs'.c, k) = Without(cs.c, k)
                    /\ LRU_size(cs'.c) = LRU_size(cs.c)
               ELSE cs'.ret = None /\ cs'.c = cs.c
     /\ QueueCall(cs', "has") =>
          (cs'.c = cs.c /\ cs'.ret.ok = LRU_has(cs.c, cs'.call[2]))
     /\ (/\ QueueCall(cs, "get") /\ cs.ret # None /\ cs.reordered
         /\ QueueCall(cs', "put") /\ ~LRU_has(cs.c, cs'.call[2])
         /\ LRU_size(cs.c) = cs.c.capacity) =>
          (cs'.evicted = {cs.c.items[1].key} /\ LRU_has(cs'.c, cs.call[2]))]_vars
\* a cache of capacity 3 is full, a get hit moved its key from an earlier place to the most
\* recent end
C31_Witness ==
  /\ QueueCall(cs, "get") /\ cs.ret # None /\ cs.reordered
  /\ cs.c.capacity = 3 /\ LRU_size(cs.c) = 3
  /\ cs.c.items[3].key = cs.call[2]

\* C32: reap_max_txs(n) returns at most n txs, all of them admitted by check_tx before, and
\* may run concurrently with check_tx: while one thread adds distinct txs and two threads
\* keep reaping the count they still need, every add the application accepts (and the byte
\* budget has room for) succeeds, no reaper obtains more than its total, and once a tx is in
\* the pool every reaper comes to obtain exactly its total.
C32_ReapWhileAdding ==
  /\ [](\A r \in Reapers : cs.need[r] >= 0)
  /\ [][/\ QueueCall(cs', "reap_max_txs") =>
            /\ Len(cs'.reaped) <= cs'.call[3]
            /\ \A i \in 1 .. Len(cs'.reaped) :
                 /\ cs'.reaped[i] \in cs.p.tx_queue.by_tx_id
                 /\ cs.inserted[cs'.reaped[i].id] = 1
                 /\ \A j \in 1 .. Len(cs'.reaped) : (cs'.reaped[i] = cs'.reaped[j]) => (i = j)
            /\ cs'.p = cs.p
       /\ (/\ QueueCall(cs', "check_tx_response") /\ cs'.call[3]
           /\ ~OverBudget(cs.p.tx_queue, cs'.call[2])) => (cs'.ret = TRUE)]_vars
  /\ (~empty(cs.p.tx_queue)) ~> (\A r \in Reapers : cs.need[r] = 0)
\* both reapers have their totals, the last reap_max_txs returned a tx while a check_tx call
\* of the adding thread was still in flight
C32_Witness ==
  /\ \A r \in Reapers : cs.need[r] = 0
  /\ QueueCall(cs, "reap_max_txs") /\ Len(cs.reaped) >= 1
  /\ ~Quiescent(cs)

\* C33: for every well-formed state st, save(st) followed by load returns a state equal to st
\* in every field, last_block_id included.
C33_SaveLoadRoundTrip ==
  [][(QueueCall(cs', "load") /\ QueueCall(cs, "save") /\ cs.ret.ok) =>
       (cs'.ret.ok /\ cs'.ret.value = cs.call[2])]_vars

\* C39: after prune_states(h) returns true, load_validators(k) and load_consensus_params(k)
\* still succeed with the same values for every height k >= h that was loadable before;
\* prune_states(h) with h <= 0 returns false and deletes nothing.
C39_PruneKeepsLoadable ==
  [][QueueCall(cs', "prune_states") =>
       LET h == cs'.call[2]
       IN /\ cs'.ret.ok =>
               \A k \in {j \in CallHeights(cs.st) : j >= h} :
                 /\ load_validators(cs.db, k).ret =>
                      load_validators(cs'.db, k) = load_validators(cs.db, k)
                 /\ load_consensus_params(cs.db, k).ret =>
                      load_consensus_params(cs'.db, k) = load_consensus_params(cs.db, k)
          /\ h <= 0 => (~cs'.ret.ok /\ cs'.db = cs.db)]_vars
\* C40: a block-sync peer is marked did_timeout only when its timer expires while it has
\* pending requests; a peer whose pending count returns to 0 through decr_pending is not
\* marked timed out and no timeout error is sent for it: only the on_timeout that the handler
\* of the timer calls marks a peer, and only one with pending requests, and the on_timeout of
\* a decr_pending neither marks the peer nor sends an error.
C40_TimeoutOnlyWhilePending ==
  [][\A id \in PeerIds :
       /\ (~cs.peers[id].did_timeout /\ cs'.peers[id].did_timeout) =>
            (cs'.call = <<"on_timeout", id, "timer">> /\ cs.peers[id].num_pending > 0)
       /\ (cs'.call = <<"on_timeout", id, "decr">>) =>
            (cs'.peers[id].did_timeout = cs.peers[id].did_timeout /\ cs'.sent = cs.sent)]_vars

\* the messages a step appended to the internal queue
PublishedBy(a, b) == {b.mq[i] : i \in (Len(a.mq) + 1) .. Len(b.mq)}
SteppingNames == {"enter_propose", "enter_prevote", "enter_prevote_wait", "enter_precommit", "enter_commit"}

\* C34: on a successful enter_X(h, r), X in {Propose, Prevote, PrevoteWait, Precommit, Commit},
\* rs.round := r and rs.step := X are applied before the side effects of the step, so that
\* every vote the step publishes carries round r, and the observers are notified of the new
\* step after the side effects: the call ends in round r, at or past step X, with the
\* observers notified.
C34_RoundAppliedBeforeEffects ==
  [][(cs.log = <<>> /\ CalledEnter(cs') /\ cs'.log[1][2] \in SteppingNames) =>
       LET name == cs'.log[1][2]
           h == cs'.log[1][3]
           r == cs'.log[1][4]
       IN (~Rejects(cs.rs, name, h, r) /\ cs'.fatal = "ok") =>
            /\ cs'.rs.round = r
            /\ cs'.rs.step >= StepOf(name)
            /\ cs'.n_steps > cs.n_steps
            /\ \A msg \in PublishedBy(cs, cs') : msg.kind = "vote" => msg.vote.round = r]_vars

\* the block the prevote policy picks: the locked block, else the proposal block, else nil
PrevotePolicy(rs) ==
  IF rs.locked_block # None THEN get_hash(rs.locked_block)
  ELSE IF rs.proposal_block # None THEN get_hash(rs.proposal_block)
  ELSE NilHash

\* C35: enter_prevote(h, r), when the guard does not reject it, publishes at most one prevote,
\* for the locked block if there is one, else for the proposal block if present, else for
\* nil, and changes none of locked_round, locked_block, valid_round, valid_block.
C35_PrevotePolicy ==
  [][(cs.log = <<>> /\ CalledEnter(cs') /\ cs'.log[1][2] = "enter_prevote") =>
       (~Rejects(cs.rs, "enter_prevote", cs'.log[1][3], cs'.log[1][4]) =>
          /\ Len(cs'.mq) <= Len(cs.mq) + 1
          /\ \A msg \in PublishedBy(cs, cs') :
               /\ msg.kind = "vote"
               /\ msg.vote.type = PrevoteType
               /\ msg.vote.block_id.hash = PrevotePolicy(cs.rs)
          /\ cs'.rs.locked_round = cs.rs.locked_round
          /\ cs'.rs.locked_block = cs.rs.locked_block
          /\ cs'.rs.valid_round = cs.rs.valid_round
          /\ cs'.rs.valid_block = cs.rs.valid_block)]_vars
\* enter_prevote ran on a node locked on one block and holding another as the proposal block,
\* and the prevote it published is for the locked block
C35_Witness ==
  /\ CalledEnter(cs)
  /\ cs.log[1][2] = "enter_prevote"
  /\ Logged(cs, "enter_prevote") # {}
  /\ cs.rs.locked_block # None
  /\ cs.rs.proposal_block # None
  /\ cs.rs.proposal_block # cs.rs.locked_block
  /\ Len(cs.mq) = 1
  /\ cs.mq[1].kind = "vote"
  /\ cs.mq[1].vote.block_id.hash = get_hash(cs.rs.locked_block)

\* receive_routine was handed a prevote, add_vote admitted it, and c was left behind
AdmittedPrevote(c) ==
  /\ ReceivedVote(c)
  /\ c.log[1][3].vote.type = PrevoteType
  /\ Logged(c, "add_vote") # {}

\* C36: when add_vote admits a prevote for the current round while rs.step >= Prevote: if
\* prevotes(round) then has a 2/3+ majority for a block id or for nil, the node enters
\* Precommit for that round, whether or not it holds the complete proposal; otherwise, if
\* prevotes(round) holds 2/3+ of any votes, it enters PrevoteWait and the PrevoteWait timeout
\* of the round is scheduled.
C36_PrevoteTransitions ==
  [][(/\ cs.log = <<>>
      /\ AdmittedPrevote(cs')
      /\ cs'.log[1][3].vote.round = cs.rs.round
      /\ cs.rs.step >= Prevote) =>
       LET h == cs.rs.height
           r == cs.rs.round
           bid == two_thirds_majority(prevotes(cs', r))
           any == has_two_thirds_any(prevotes(cs', r))
       IN /\ bid # None =>
               /\ cs'.fatal = "ok"
               /\ cs'.rs.round = r
               /\ cs'.rs.step >= Precommit
          /\ (bid = None /\ any) =>
               /\ cs'.fatal = "ok"
               /\ cs'.rs.round = r
               /\ cs'.rs.step >= PrevoteWait
               /\ cs.rs.step < PrevoteWait => Armed(cs', h, r, PrevoteWait)]_vars

\* the precommit of the height before the node's, received in step NewHeight
LastCommitVote(rs, v) == v.type = PrecommitType /\ v.height = rs.height - 1 /\ rs.step = NewHeight

\* C37: add_vote on a vote whose height is not rs.height, other than a precommit for height
\* rs.height - 1 received in step NewHeight, is not added and changes no RoundState field, no
\* vote set and no scheduled timeout; this includes a precommit for height rs.height - 1
\* received in any other step.
C37_WrongHeightVoteDropped ==
  [][(cs.log = <<>> /\ ReceivedVote(cs')) =>
       LET v == cs'.log[1][3].vote
       IN (v.height # cs.rs.height /\ ~LastCommitVote(cs.rs, v)) =>
            /\ Logged(cs', "add_vote") = {}
            /\ NoEffect(cs, cs')]_vars
\* a precommit of the height before the node's was handed over after step NewHeight and dropped
C37_Witness ==
  /\ ReceivedVote(cs)
  /\ cs.log[1][3].vote.type = PrecommitType
  /\ cs.log[1][3].vote.height = cs.rs.height - 1
  /\ cs.rs.step # NewHeight
  /\ Len(cs.log) = 1
  /\ cs.fatal = "ok"

\* old comes lexicographically before ti, or equals it
NotAfter(old, ti) == old = ti \/ Stale(old, ti)

\* C38: across any sequence of tick calls old_ti never decreases in the lexicographic order of
\* (height, round, step), and a tick is accepted (timer cancelled and re-armed, old_ti
\* replaced) exactly when its (height, round, step) is strictly greater than old_ti, or
\* old_ti still has step value 0; the same holds of tick for every old_ti the ticker can hold.
C38_TickerMonotone ==
  [][/\ NotAfter(cs.old_ti, cs'.old_ti)
     /\ (cs.log = <<>> /\ Scheduled(cs')) =>
          LET ti == cs'.log[1][3] IN
            /\ (cs'.old_ti # cs.old_ti \/ cs'.timers # cs.timers) <=>
                 (Stale(cs.old_ti, ti) \/ cs.old_ti.step = 0)
            /\ (cs'.old_ti # cs.old_ti \/ cs'.timers # cs.timers) =>
                 /\ cs'.old_ti = ti
                 /\ Armed(cs', ti.height, ti.round, ti.step)
                 /\ \A t \in cs.timers : [t EXCEPT !.aborted = TRUE] \in cs'.timers
            /\ \A old \in TimeoutInfos \cup {timeout_info(0, 0, 0)} :
                 LET c == [cs EXCEPT !.old_ti = old]
                 IN /\ (tick(c, ti) # c) <=> (Stale(old, ti) \/ old.step = 0)
                    /\ NotAfter(old, tick(c, ti).old_ti)]_vars
\* a tick ahead of old_ti was accepted: it is the new old_ti, its timer is armed, and the timer
\* of the TimeoutInfo it replaced is cancelled
C38_Witness ==
  /\ Scheduled(cs)
  /\ cs.old_ti = cs.log[1][3]
  /\ [ti |-> cs.old_ti, aborted |-> FALSE] \in cs.timers
  /\ \E t \in cs.timers : t.aborted /\ Stale(t.ti, cs.old_ti)

====
